---- MODULE Spec2Model ----
(***************************************************************************)
(* Model of the ImageVectorizer core (src/src/background_remover.py):      *)
(* background-color detection from border pixels, the color masks of       *)
(* remove_color_background / remove_color_background_hq, and the cluster   *)
(* count chosen for k-means.                                               *)
(*                                                                         *)
(* Conventions.  Pixel positions are 0-based <<row, col>> pairs as in      *)
(* numpy; sequences are 1-based.  A color is a triple <<r, g, b>>.  A      *)
(* coverage percentage count / total * 100 is kept as the pair             *)
(* (count, total) so that comparisons are exact.  sklearn's KMeans is a    *)
(* library: its outcome is any labelling of the distinct colors with       *)
(* labels 0..k-1, or an exception.                                         *)
(***************************************************************************)
EXTENDS Integers, Sequences, FiniteSets, TLC

\* ------------------------------------------------------------------ bounds
MaxH == 11            \* image heights 1..MaxH (detection)
MaxW == 6             \* image widths 1..MaxW (detection)
MaxColors == 5        \* number of distinct colors a detection image may hold
MaxSuggestions == 2   \* num_suggestions ranges over 1..MaxSuggestions
MaxMaskW == 2         \* mask images are 1 x (1..MaxMaskW)
MaxTol == 6           \* tolerance ranges over 0..MaxTol
MaxRequested == 12    \* requested suggestion counts 0..MaxRequested (cluster count)
MaxDistinct == 110    \* distinct-color counts 5..MaxDistinct (cluster count)
MaxHqW == 5           \* high-quality removal images are 1 x n and n x 1, n in 1..MaxHqW
MaxPathLen == 4       \* _create_smooth_path alone gets 0..MaxPathLen points
MaxCanvas == 11       \* single-color canvases are (1..MaxCanvas) x (1..MaxCanvas)
MaxContours == 2      \* contours a findContours call returns on a mixed image
MaxSelected == 2      \* colors selected for one process_selected_colors run
MaxPreviews == 2      \* preview threads started in one session of the window
MaxTime == 2000       \* the clock runs from 0 to MaxTime ms in steps of 500
MaxRuns == 2          \* processing runs started in one session of the window

VARIABLES
    image,            \* [height, width, px]: the decoded RGB image
    fn,               \* detection entry point last called, or "none"
    num_suggestions,  \* its num_suggestions argument
    edge_positions,   \* positions sampled into edge_pixels, in order
    edge_pixels,      \* edge_pixels (one color per sampled position)
    unique_pixels,    \* np.unique(edge_pixels, axis=0)
    k,                \* n_clusters handed to KMeans (0: clustering not reached)
    kmeans,           \* outcome of KMeans.fit_predict
    original_labels,  \* cluster_labels[inverse_indices]
    result,           \* what the caller of the entry point receives
    target_color,     \* target color of the mask operations
    mask_call,        \* last mask operation: [op, tolerance, mask, rgba]
    kc,               \* cluster-count computation: [fn, requested, distinct, k]
    hq_call,          \* last remove_color_background_hq call, stage by stage
    vec_call,         \* last Vectorizer call: contours, kept contours, paths, result
    sp_call,          \* last _create_smooth_path call: [points, smooth_factor, path]
    rng,              \* state of numpy's process-wide random generator
    runs,             \* records of the latest runs of one operation, oldest first
    threads,          \* worker threads: [op, img, pc, out, result] each
    files,            \* the file system: path -> content written last
    ui                \* the window: buttons, dialogs, timers and its worker threads

detectVars == <<fn, num_suggestions, edge_positions, edge_pixels, unique_pixels,
                k, kmeans, original_labels, result>>
maskVars == <<target_color, mask_call>>
extVars == <<hq_call, vec_call, sp_call, rng, runs, threads, files, ui>>
vars == <<image, detectVars, maskVars, kc, extVars>>

\* ----------------------------------------------------------------- helpers
Min(a, b) == IF a < b THEN a ELSE b
Max(a, b) == IF a > b THEN a ELSE b
Abs(a) == IF a < 0 THEN 0 - a ELSE a
Range(s) == {s[i] : i \in DOMAIN s}

Return(v) == [kind |-> "return", value |-> v, exc |-> "none"]
Raise(e) == [kind |-> "raise", value |-> <<>>, exc |-> e]
NoResult == [kind |-> "none", value |-> <<>>, exc |-> "none"]
NoKMeans == [status |-> "not_run", labels |-> <<>>]

\* list[:n] for n >= 0
Take(s, n) == SubSeq(s, 1, Min(n, Len(s)))

RemoveAt(s, i) == SubSeq(s, 1, i - 1) \o SubSeq(s, i + 1, Len(s))

\* --------------------------------------------------------- border sampling
\* edge_thickness = max(5, min(height // 20, 20))
EdgeThickness(height) == Max(5, Min(height \div 20, 20))

\* Row-major positions of image[r0:r1, c0:c1] (half-open, already resolved
\* to non-negative bounds); empty when a range is empty.
BandPositions(r0, r1, c0, c1) ==
    IF r1 <= r0 \/ c1 <= c0 THEN <<>>
    ELSE LET w == c1 - c0
         IN [i \in 1..((r1 - r0) * w) |-> <<r0 + ((i - 1) \div w), c0 + ((i - 1) % w)>>]

\* The four extend() calls: image[:t, :], image[-t:, :], image[t:-t, :t],
\* image[t:-t, -t:] with Python's slice clamping.
EdgePositions(height, width) ==
    LET t == EdgeThickness(height)
    IN BandPositions(0, Min(t, height), 0, width)
       \o BandPositions(Max(height - t, 0), height, 0, width)
       \o BandPositions(Min(t, height), Max(height - t, 0), 0, Min(t, width))
       \o BandPositions(Min(t, height), Max(height - t, 0), Max(width - t, 0), width)

\* np.clip(edge_pixels, 0, 255), per channel
ClipColor(c) == [i \in 1..3 |-> Max(0, Min(c[i], 255))]

EdgePixels(img) ==
    LET pos == EdgePositions(img.height, img.width)
    IN [i \in DOMAIN pos |-> ClipColor(img.px[pos[i]])]

\* ------------------------------------------------------------ np.unique
LexLess(a, b) ==
    \/ a[1] < b[1]
    \/ a[1] = b[1] /\ a[2] < b[2]
    \/ a[1] = b[1] /\ a[2] = b[2] /\ a[3] < b[3]

RECURSIVE SortedColors(_)
SortedColors(S) ==
    IF S = {} THEN <<>>
    ELSE LET m == CHOOSE x \in S : \A y \in S \ {x} : LexLess(x, y)
         IN <<m>> \o SortedColors(S \ {m})

\* unique rows in lexicographic order
NpUnique(pixels) == SortedColors(Range(pixels))

\* inverse_indices: index into the unique rows for every sampled pixel
InverseIndices(pixels, uniq) ==
    [i \in DOMAIN pixels |-> CHOOSE j \in DOMAIN uniq : uniq[j] = pixels[i]]

\* ------------------------------------------------------------- clustering
\* Variant: the lower clamp k = max(2, k) left out.
ClusterCount_unclamped(requested, distinct) ==
    Min(Min(requested * 2, distinct \div 5), 20)

\* k = min(num_suggestions * 2, len(unique_pixels) // 5, 20); k = max(2, k)
ClusterCount(requested, distinct) ==
    Max(2, Min(Min(requested * 2, distinct \div 5), 20))

\* k = min(8, len(unique_pixels) // 5, 20); k = max(2, k)
ClusterCountGui(distinct) ==
    Max(2, Min(Min(8, distinct \div 5), 20))

\* KMeans(...).fit_predict: a label in 0..k-1 for each distinct color, or an
\* exception raised by the library.
KMeansOutcomes(distinct, clusters) ==
    {[status |-> "ok", labels |-> l] : l \in [1..distinct -> 0..(clusters - 1)]}
    \cup {[status |-> "raised", labels |-> <<>>]}

\* cluster_labels[inverse_indices]
OriginalLabels(labels, inverse) == [i \in DOMAIN inverse |-> labels[inverse[i]]]

CountOf(s, x) == Cardinality({i \in DOMAIN s : s[i] = x})

\* index of the first occurrence of x in s, scanning from position i
RECURSIVE FirstIndex(_, _, _)
FirstIndex(s, x, i) == IF s[i] = x THEN i ELSE FirstIndex(s, x, i + 1)

RECURSIVE KeysInOrder(_, _)
KeysInOrder(s, keys) ==
    IF keys = {} THEN <<>>
    ELSE LET first == CHOOSE x \in keys :
                          \A y \in keys : FirstIndex(s, x, 1) <= FirstIndex(s, y, 1)
         IN <<first>> \o KeysInOrder(s, keys \ {first})

\* collections.Counter(labels): keys in order of first appearance
Counter(s) ==
    LET keys == KeysInOrder(s, Range(s))
    IN [i \in DOMAIN keys |-> [key |-> keys[i], count |-> CountOf(s, keys[i])]]

\* Counter.most_common(): by count descending, ties in insertion order
RECURSIVE SortByCountDesc(_)
SortByCountDesc(c) ==
    IF c = <<>> THEN <<>>
    ELSE LET i == CHOOSE i \in DOMAIN c :
                      /\ \A j \in DOMAIN c : c[j].count <= c[i].count
                      /\ \A j \in 1..(i - 1) : c[j].count < c[i].count
         IN <<c[i]>> \o SortByCountDesc(RemoveAt(c, i))

\* Variant: the counter's insertion order, unranked.
MostCommon_unranked(c) == c

MostCommon(c) == SortByCountDesc(c)

\* Counter.most_common(n)
MostCommonN(c, n) == Take(MostCommon(c), n)

\* kmeans.cluster_centers_[cluster_id] * 255: the centroid of the distinct
\* colors labelled cluster_id (kept as that member set).
ClusterCenter(uniq, labels, cluster_id) ==
    [centroid_of |-> {uniq[j] : j \in {j \in DOMAIN uniq : labels[j] = cluster_id}}]

\* (color_rgb, percentage) with percentage = (count / total) * 100
Candidate(color, count, total) == [color |-> color, count |-> count, total |-> total]


\* Variant: the total taken over the de-duplicated pixels.
TotalEdgePixels_unique(pixels) == Cardinality(Range(pixels))

\* total_edge_pixels = len(edge_pixels)
TotalEdgePixels(pixels) == Len(pixels)

\* self._fallback_color_detection_simple(input_path): BackgroundRemover
\* defines no such method, so evaluating the attribute raises.
FallbackColorDetectionSimple == Raise("AttributeError")

\* self._fallback_color_detection(edge_pixels): likewise not defined.
FallbackColorDetection == Raise("AttributeError")

\* --------------------------------------------- detect_background_colors
\* The loop over cluster_counts.most_common(num_suggestions).
Suggestions(pixels, uniq, labels, n) ==
    LET ol == OriginalLabels(labels, InverseIndices(pixels, uniq))
        mc == MostCommonN(Counter(ol), n)
    IN [i \in DOMAIN mc |->
            Candidate(ClusterCenter(uniq, labels, mc[i].key), mc[i].count,
                      TotalEdgePixels(pixels))]

\* Body of the try block, given the outcome km of KMeans.
DetectBody(pixels, uniq, n, km) ==
    IF Len(pixels) = 0 THEN Return(<<>>)
    ELSE IF Len(pixels) < 10 THEN FallbackColorDetectionSimple
    ELSE IF Len(uniq) < 5 THEN FallbackColorDetectionSimple
    ELSE IF km.status = "raised" THEN FallbackColorDetection
    ELSE Return(Suggestions(pixels, uniq, km.labels, n))

\* except Exception: return self._fallback_color_detection_simple(input_path)
DetectExcept(body) ==
    IF body.kind = "raise" THEN FallbackColorDetectionSimple ELSE body

\* ------------------------------- detect_background_colors_gui (line 738)
\* np.ndarray.astype(np.uint8) on a channel value
Uint8(v) == v % 256

\* np.argsort(counts)[::-1]: indices by count descending; equal counts come
\* out in descending index order (reversal of the ascending sort).
RECURSIVE ArgsortReversed(_, _)
ArgsortReversed(counts, left) ==
    IF left = {} THEN <<>>
    ELSE LET i == CHOOSE i \in left :
                      /\ \A j \in left : counts[j] <= counts[i]
                      /\ \A j \in left : counts[j] = counts[i] => j <= i
         IN <<i>> \o ArgsortReversed(counts, left \ {i})

\* _fallback_color_detection_gui: histogram of the sampled colors, the six
\* most frequent first.
FallbackColorDetectionGui(pixels) ==
    LET ints == [i \in DOMAIN pixels |-> [c \in 1..3 |-> Uint8(pixels[i][c])]]
        colors == NpUnique(ints)
        counts == [j \in DOMAIN colors |-> CountOf(ints, colors[j])]
        sorted_indices == ArgsortReversed(counts, DOMAIN counts)
        total_pixels == Len(ints)
    IN [i \in 1..Min(6, Len(sorted_indices)) |->
            Candidate(colors[sorted_indices[i]], counts[sorted_indices[i]], total_pixels)]

\* _get_edge_colors, given the outcome km of KMeans.
GetEdgeColors(pixels, uniq, km) ==
    IF Len(pixels) = 0 THEN <<>>
    ELSE IF Len(pixels) < 10 THEN <<>>
    ELSE IF Len(uniq) < 5 THEN <<>>
    ELSE IF km.status = "raised" THEN FallbackColorDetectionGui(pixels)
    ELSE LET ol == OriginalLabels(km.labels, InverseIndices(pixels, uniq))
             mc == MostCommon(Counter(ol))
         IN [i \in DOMAIN mc |->
                Candidate(ClusterCenter(uniq, km.labels, mc[i].key), mc[i].count,
                          TotalEdgePixels(pixels))]

\* detect_background_colors_gui as bound on the class (the second definition)
DetectGuiBody(pixels, uniq, n, km) ==
    LET color_candidates == GetEdgeColors(pixels, uniq, km)
    IN IF color_candidates = <<>> THEN Return(<<>>)
       ELSE Return(Take(color_candidates, n))

\* ---------------------------------------------------------------- images
\* A color for every index, pairwise distinct for small indices.
PatternColor(i) == <<(i * 85) % 256, (i * 51) % 256, 255 - ((i * 17) % 256)>>

\* An h x w image whose pixel at <<r, c>> has color index (a*r + b*c) mod m.
PatternImage(h, w, a, b, m) ==
    [height |-> h, width |-> w,
     px |-> [p \in (0..(h - 1)) \X (0..(w - 1)) |-> PatternColor((a * p[1] + b * p[2]) % m)]]

DetectImages ==
    {PatternImage(h, w, ab[1], ab[2], m) :
        h \in 1..MaxH, w \in 1..MaxW, ab \in {<<0, 1>>, <<1, 0>>, <<1, 1>>}, m \in 1..MaxColors}

NoMaskCall == [op |-> "none", tolerance |-> 0, mask |-> <<>>, rgba |-> <<>>]
NoHqCall == [op |-> "none"]
NoVecCall == [op |-> "none"]
NoSpCall == [op |-> "none"]
NoUi == [window |-> "none"]

\* The components a specification does not exercise stay as constructed.
ExtIdle ==
    /\ hq_call = NoHqCall
    /\ vec_call = NoVecCall
    /\ sp_call = NoSpCall
    /\ rng = 0
    /\ runs = <<>>
    /\ threads = <<>>
    /\ files = <<>>
    /\ ui = NoUi

NoKc == [fn |-> "none", requested |-> 0, distinct |-> 0, k |-> 0]

DetectIdle ==
    /\ fn = "none"
    /\ num_suggestions = 0
    /\ edge_positions = <<>>
    /\ edge_pixels = <<>>
    /\ unique_pixels = <<>>
    /\ k = 0
    /\ kmeans = NoKMeans
    /\ original_labels = <<>>
    /\ result = NoResult

MaskIdle ==
    /\ target_color = <<0, 0, 0>>
    /\ mask_call = NoMaskCall

InitDetect ==
    /\ image \in DetectImages
    /\ DetectIdle
    /\ MaskIdle
    /\ kc = NoKc
    /\ ExtIdle

\* One call of a detection entry point on the freshly loaded image.  `gui` selects
\* detect_background_colors_gui; the sampling and de-duplication code is the
\* same in both.
DetectCall(gui, n) ==
    /\ fn = "none"
    /\ LET pixels == EdgePixels(image)
           uniq == NpUnique(pixels)
           clusters == IF gui THEN ClusterCountGui(Len(uniq)) ELSE ClusterCount(n, Len(uniq))
           reached == Len(pixels) >= 10 /\ Len(uniq) >= 5
       IN \E km \in (IF reached THEN KMeansOutcomes(Len(uniq), clusters) ELSE {NoKMeans}) :
            /\ fn' = IF gui THEN "detect_background_colors_gui" ELSE "detect_background_colors"
            /\ num_suggestions' = n
            /\ edge_positions' = EdgePositions(image.height, image.width)
            /\ edge_pixels' = pixels
            /\ unique_pixels' = IF Len(pixels) >= 10 THEN uniq ELSE <<>>
            /\ k' = IF reached THEN clusters ELSE 0
            /\ kmeans' = km
            /\ original_labels' = IF km.status = "ok"
                                  THEN OriginalLabels(km.labels, InverseIndices(pixels, uniq))
                                  ELSE <<>>
            /\ result' = IF gui THEN DetectGuiBody(pixels, uniq, n, km)
                         ELSE DetectExcept(DetectBody(pixels, uniq, n, km))
            /\ UNCHANGED <<image, maskVars, kc, extVars>>

DetectBackgroundColors == \E n \in 1..MaxSuggestions : DetectCall(FALSE, n)

DetectBackgroundColorsGui == \E n \in 1..MaxSuggestions : DetectCall(TRUE, n)

NextDetect == DetectBackgroundColors \/ DetectBackgroundColorsGui

SpecDetect == InitDetect /\ [][NextDetect]_vars


\* ------------------------------------------------------------ color masks
\* np.sqrt(x) <= tolerance for an integer sum of squares x (exact in float32
\* up to 3 * 255^2) and an integer tolerance.
SqrtLeq(x, tolerance) == tolerance >= 0 /\ x <= tolerance * tolerance

\* np.sum(color_diff ** 2, axis=2) at one pixel
SumSquares(d) == d[1] * d[1] + d[2] * d[2] + d[3] * d[3]

\* Variant: mask = color_distance < tolerance.
CreateColorMask_strict(img, target, tolerance) ==
    [p \in DOMAIN img.px |->
        LET color_diff == [c \in 1..3 |-> Abs(img.px[p][c] - target[c])]
        IN tolerance > 0 /\ SumSquares(color_diff) < tolerance * tolerance]

\* Variant: mask = color_distance >= tolerance.
CreateColorMask_inverted(img, target, tolerance) ==
    [p \in DOMAIN img.px |->
        LET color_diff == [c \in 1..3 |-> Abs(img.px[p][c] - target[c])]
        IN ~(tolerance > 0 /\ SumSquares(color_diff) < tolerance * tolerance)]

\* _create_color_mask: color_distance <= tolerance
CreateColorMask(img, target, tolerance) ==
    [p \in DOMAIN img.px |->
        LET color_diff == [c \in 1..3 |-> Abs(img.px[p][c] - target[c])]
        IN SqrtLeq(SumSquares(color_diff), tolerance)]

\* Variant: the color of a masked pixel is cleared together with its alpha.
ApplyTransparencyMask_cleared(img, mask) ==
    [p \in DOMAIN img.px |->
        IF mask[p] THEN <<0, 0, 0, 0>>
        ELSE <<img.px[p][1], img.px[p][2], img.px[p][3], 255>>]

\* _apply_transparency_mask: RGB copied, alpha 255, alpha 0 where masked
ApplyTransparencyMask(img, mask) ==
    [p \in DOMAIN img.px |->
        <<img.px[p][1], img.px[p][2], img.px[p][3], IF mask[p] THEN 0 ELSE 255>>]

\* Ten times manhattan_threshold = tolerance * 1.5
ManhattanThreshold10(tolerance) == tolerance * 15

\* Ten times the per-channel threshold tolerance * 0.7
ChannelThreshold10(tolerance) == tolerance * 7

\* Variant: the per-channel test left out of the union.
CreateEnhancedColorMask_twoTests(img, target, tolerance) ==
    [p \in DOMAIN img.px |->
        LET color_diff == [c \in 1..3 |-> img.px[p][c] - target[c]]
            mask_euclidean == SqrtLeq(SumSquares(color_diff), tolerance)
            manhattan_distance == Abs(color_diff[1]) + Abs(color_diff[2]) + Abs(color_diff[3])
            mask_manhattan == 10 * manhattan_distance <= ManhattanThreshold10(tolerance)
        IN mask_euclidean \/ mask_manhattan]

\* _create_enhanced_color_mask: union of the three tests
CreateEnhancedColorMask(img, target, tolerance) ==
    [p \in DOMAIN img.px |->
        LET color_diff == [c \in 1..3 |-> img.px[p][c] - target[c]]
            mask_euclidean == SqrtLeq(SumSquares(color_diff), tolerance)
            manhattan_distance == Abs(color_diff[1]) + Abs(color_diff[2]) + Abs(color_diff[3])
            mask_manhattan == 10 * manhattan_distance <= ManhattanThreshold10(tolerance)
            mask_channels == \A c \in 1..3 :
                                10 * Abs(color_diff[c]) <= ChannelThreshold10(tolerance)
        IN mask_euclidean \/ mask_manhattan \/ mask_channels]

\* Colors of the mask images and target colors: a cube of near-black colors
\* and white.
MaskChannels == {0, 3}
MaskColors == (MaskChannels \X MaskChannels \X MaskChannels) \cup {<<255, 255, 255>>}

MaskImages ==
    UNION {{[height |-> 1, width |-> w, px |-> f] : f \in [{0} \X (0..(w - 1)) -> MaskColors]} :
            w \in 1..MaxMaskW}

InitMask ==
    /\ image \in MaskImages
    /\ target_color \in MaskColors
    /\ mask_call = NoMaskCall
    /\ DetectIdle
    /\ kc = NoKc
    /\ ExtIdle

\* remove_color_background(input_path, output_path, target_color, tolerance)
\* with an RGB tuple as target: mask, RGBA result, saved.
RemoveColorBackground ==
    \E tolerance \in 0..MaxTol :
        LET mask == CreateColorMask(image, target_color, tolerance)
        IN /\ mask_call' = [op |-> "remove_color_background", tolerance |-> tolerance,
                            mask |-> mask, rgba |-> ApplyTransparencyMask(image, mask)]
           /\ UNCHANGED <<image, target_color, detectVars, kc, extVars>>

\* The raw mask step of remove_color_background_hq.
EnhancedColorMask ==
    \E tolerance \in 0..MaxTol :
        /\ mask_call' = [op |-> "create_enhanced_color_mask", tolerance |-> tolerance,
                         mask |-> CreateEnhancedColorMask(image, target_color, tolerance),
                         rgba |-> <<>>]
        /\ UNCHANGED <<image, target_color, detectVars, kc, extVars>>

NextMask == RemoveColorBackground \/ EnhancedColorMask

SpecMask == InitMask /\ [][NextMask]_vars

\* ------------------------------------------------------ cluster count alone
InitClusterCount ==
    /\ kc \in {[fn |-> "none", requested |-> n, distinct |-> u, k |-> 0] :
                n \in 0..MaxRequested, u \in 5..MaxDistinct}
    /\ image = PatternImage(1, 1, 0, 0, 1)
    /\ DetectIdle
    /\ MaskIdle
    /\ ExtIdle

\* Lines 192-193 of detect_background_colors on (num_suggestions, distinct)
ChooseClusterCount ==
    /\ kc.fn = "none"
    /\ kc' = [kc EXCEPT !.fn = "detect_background_colors",
                        !.k = ClusterCount(kc.requested, kc.distinct)]
    /\ UNCHANGED <<image, detectVars, maskVars, extVars>>

\* Lines 806-807 of _get_edge_colors on the distinct count
ChooseClusterCountGui ==
    /\ kc.fn = "none"
    /\ kc' = [kc EXCEPT !.fn = "detect_background_colors_gui",
                        !.k = ClusterCountGui(kc.distinct)]
    /\ UNCHANGED <<image, detectVars, maskVars, extVars>>

NextClusterCount == ChooseClusterCount \/ ChooseClusterCountGui

SpecClusterCount == InitClusterCount /\ [][NextClusterCount]_vars

\* ======================================================== detection claims
RECURSIVE SumCounts(_)
SumCounts(cands) == IF cands = <<>> THEN 0 ELSE Head(cands).count + SumCounts(Tail(cands))

Returned == fn # "none" /\ result.kind = "return"

\* The distinct sampled colors a candidate stands for: the members of its
\* cluster, or the single histogram color.
MembersOf(cand) == IF kmeans.status = "ok" THEN cand.color.centroid_of ELSE {cand.color}

SampledIn(S) == Cardinality({i \in DOMAIN edge_pixels : edge_pixels[i] \in S})

\* C1: whenever a detection entry point returns a list, every coverage
\* count/total*100 lies in [0,100], the coverages of the list sum to at most
\* 100, and each is the share of the sampled border pixels that fall in one
\* of pairwise disjoint groups of sampled colors.
C1_CoverageBounded ==
    Returned =>
        LET v == result.value
        IN /\ \A i \in DOMAIN v :
                /\ v[i].total = Len(edge_pixels)
                /\ v[i].total > 0
                /\ 0 <= v[i].count * 100
                /\ v[i].count * 100 <= 100 * v[i].total
                /\ v[i].count = SampledIn(MembersOf(v[i]))
           /\ \A i, j \in DOMAIN v : i # j => MembersOf(v[i]) \cap MembersOf(v[j]) = {}
           /\ SumCounts(v) * 100 <= 100 * Len(edge_pixels)

C1_Witness ==
    /\ fn = "detect_background_colors"
    /\ result.kind = "return"
    /\ Len(result.value) = 2
    /\ result.value[2].count > 0
    /\ SumCounts(result.value) = Len(edge_pixels)

\* Number of sampled pixels carrying cluster label l.
MemberCount(l) == CountOf(original_labels, l)

\* C2: the returned candidates number at most num_suggestions, are ordered by
\* coverage non-increasing, and after clustering they are the num_suggestions
\* clusters with the most members: each is a cluster with its member count
\* and no omitted cluster has more members than a returned one.
C2_TopRanked ==
    Returned =>
        LET v == result.value
        IN /\ Len(v) <= num_suggestions
           /\ \A i \in 1..(Len(v) - 1) : v[i].count >= v[i + 1].count
           /\ kmeans.status = "ok" =>
                LET shown == {l \in 0..(k - 1) :
                                \E i \in DOMAIN v :
                                    /\ v[i].color = ClusterCenter(unique_pixels, kmeans.labels, l)
                                    /\ v[i].count = MemberCount(l)}
                    nonempty == {l \in 0..(k - 1) : MemberCount(l) > 0}
                IN /\ Cardinality(shown) = Len(v)
                   /\ Len(v) = Min(num_suggestions, Cardinality(nonempty))
                   /\ \A l \in (0..(k - 1)) \ shown :
                        \A i \in DOMAIN v : MemberCount(l) <= v[i].count

C2_Witness ==
    /\ fn = "detect_background_colors"
    /\ result.kind = "return"
    /\ num_suggestions = 1
    /\ Len(result.value) = 1
    /\ \E l \in 0..(k - 1) :
        /\ MemberCount(l) > 0
        /\ MemberCount(l) < result.value[1].count
        /\ original_labels[1] = l

\* C3: with at least 10 sampled pixels but fewer than 5 distinct colors, both
\* entry points return one candidate per distinct color, all with the same
\* coverage.
C3_FewColorsUniform ==
    (fn # "none" /\ Len(edge_pixels) >= 10 /\ Len(unique_pixels) < 5) =>
        /\ result.kind = "return"
        /\ Len(result.value) = Len(unique_pixels)
        /\ {result.value[i].color : i \in DOMAIN result.value} = Range(unique_pixels)
        /\ \A i, j \in DOMAIN result.value :
            result.value[i].count * result.value[j].total
                = result.value[j].count * result.value[i].total

\* C4: with fewer than 10 sampled pixels no error reaches the caller; the
\* result holds the colors at the four corners, top-center and bottom-center,
\* each with the same weight.
C4_CornerFallback ==
    (fn # "none" /\ Len(edge_pixels) < 10) =>
        LET h == image.height
            w == image.width
            corners == << <<0, 0>>, <<0, w - 1>>, <<h - 1, 0>>, <<h - 1, w - 1>>,
                          <<0, w \div 2>>, <<h - 1, w \div 2>> >>
        IN /\ result.kind = "return"
           /\ Len(result.value) = 6
           /\ \A i \in 1..6 :
                /\ result.value[i].color = image.px[corners[i]]
                /\ result.value[i].count * result.value[1].total
                    = result.value[1].count * result.value[i].total

\* C5: when KMeans raises, the caller of either entry point receives the
\* histogram result (distinct sampled colors by frequency descending, the top
\* num_suggestions, coverage = count/total*100) and no exception.
C5_KMeansFailureHistogram ==
    (fn # "none" /\ kmeans.status = "raised") =>
        LET v == result.value
        IN /\ result.kind = "return"
           /\ Len(v) = Min(num_suggestions, Len(unique_pixels))
           /\ \A i \in DOMAIN v :
                /\ v[i].color \in Range(edge_pixels)
                /\ v[i].count = CountOf(edge_pixels, v[i].color)
                /\ v[i].total = Len(edge_pixels)
           /\ \A i \in 1..(Len(v) - 1) : v[i].count >= v[i + 1].count
           /\ \A c \in Range(edge_pixels) \ {v[i].color : i \in DOMAIN v} :
                \A i \in DOMAIN v : CountOf(edge_pixels, c) <= v[i].count

\* C10: the border sample holds each pixel position at most once, and is the
\* top band, the bottom band and the left and right bands between them.
C10_NoPositionTwice ==
    fn # "none" =>
        LET h == image.height
            w == image.width
            t == EdgeThickness(h)
        IN /\ Cardinality(Range(edge_positions)) = Len(edge_positions)
           /\ Range(edge_positions) =
                {p \in (0..(h - 1)) \X (0..(w - 1)) :
                    \/ p[1] <= t - 1
                    \/ p[1] >= h - t
                    \/ p[2] <= t - 1
                    \/ p[2] >= w - t}


\* ============================================================= mask claims
\* Positions made transparent (remove_color_background) or set in the raw
\* mask (_create_enhanced_color_mask) by a mask operation.
Removed(call) ==
    IF call.op = "remove_color_background"
    THEN {p \in DOMAIN call.rgba : call.rgba[p][4] = 0}
    ELSE {p \in DOMAIN call.mask : call.mask[p]}

\* C6: remove_color_background with tolerance 0 sets alpha to 0 at a pixel if
\* and only if the pixel's three channels all equal the target color.
C6_ExactAtZero ==
    (mask_call.op = "remove_color_background" /\ mask_call.tolerance = 0) =>
        \A p \in DOMAIN image.px :
            (mask_call.rgba[p][4] = 0) <=> (image.px[p] = target_color)

C6_Witness ==
    /\ mask_call.op = "remove_color_background"
    /\ mask_call.tolerance = 0
    /\ \E p, q \in DOMAIN image.px : mask_call.rgba[p][4] = 0 /\ mask_call.rgba[q][4] = 255

\* C7: for the same image and target color, a call with a tolerance at least
\* as large removes every pixel the previous call of that operation removed.
C7_Monotone ==
    [][(/\ mask_call.op # "none"
        /\ mask_call'.op = mask_call.op
        /\ mask_call.tolerance <= mask_call'.tolerance)
            => Removed(mask_call) \subseteq Removed(mask_call')]_vars

C7_Witness ==
    /\ mask_call.op = "remove_color_background"
    /\ mask_call.tolerance > 0
    /\ \E p, q \in DOMAIN image.px :
        /\ p \in Removed(mask_call)
        /\ image.px[p] # target_color
        /\ q \notin Removed(mask_call)

\* The three tests of the claim at one pixel, in exact arithmetic.
EuclideanTest(d, t) == t >= 0 /\ SumSquares(d) <= t * t
ManhattanTest(d, t) == 2 * (Abs(d[1]) + Abs(d[2]) + Abs(d[3])) <= 3 * t
ChannelTest(d, t) == \A c \in 1..3 : 10 * Abs(d[c]) <= 7 * t

PixelDiff(p) == [c \in 1..3 |-> image.px[p][c] - target_color[c]]

\* C8: the raw high-quality mask is true at a pixel exactly when the
\* Euclidean distance is <= t, or the Manhattan distance is <= 1.5 t, or every
\* channel difference is <= 0.7 t; it is false when all three fail.
C8_ThreeTestUnion ==
    mask_call.op = "create_enhanced_color_mask" =>
        \A p \in DOMAIN image.px :
            mask_call.mask[p] <=>
                \/ EuclideanTest(PixelDiff(p), mask_call.tolerance)
                \/ ManhattanTest(PixelDiff(p), mask_call.tolerance)
                \/ ChannelTest(PixelDiff(p), mask_call.tolerance)

C8_Witness ==
    /\ mask_call.op = "create_enhanced_color_mask"
    /\ \E p, q \in DOMAIN image.px :
        /\ mask_call.mask[p]
        /\ ~EuclideanTest(PixelDiff(p), mask_call.tolerance)
        /\ ~ManhattanTest(PixelDiff(p), mask_call.tolerance)
        /\ ChannelTest(PixelDiff(p), mask_call.tolerance)
        /\ ~mask_call.mask[q]

\* ==================================================== cluster-count claims
\* C9 as stated: 2 <= k <= min(k_requested, distinct_count).
C9_Original ==
    kc.fn # "none" => (2 <= kc.k /\ kc.k <= Min(kc.requested, kc.distinct))

\* C9 amended: 2 <= k <= min(max(2, 2 * k_requested), distinct_count) in
\* detect_background_colors and 2 <= k <= min(8, distinct_count) in
\* _get_edge_colors.
C9_ClusterCountRange ==
    /\ kc.fn = "detect_background_colors" =>
        (2 <= kc.k /\ kc.k <= Min(Max(2, 2 * kc.requested), kc.distinct))
    /\ kc.fn = "detect_background_colors_gui" =>
        (2 <= kc.k /\ kc.k <= Min(8, kc.distinct))

C9_Witness ==
    /\ kc.fn = "detect_background_colors"
    /\ kc.requested >= 1
    /\ kc.k > kc.requested
    /\ kc.k = 2 * kc.requested

\* ============================================ high-quality removal pipeline
\* mask.shape of a 2-D array kept as a function on <<row, col>> positions
Rows(a) == Cardinality({p[1] : p \in DOMAIN a})
Cols(a) == Cardinality({p[2] : p \in DOMAIN a})

\* cv2.getStructuringElement(cv2.MORPH_ELLIPSE, (3, 3)): the offsets of the
\* kernel's ones (a cross).
KernelSmall == {<<0, 0>>, <<-1, 0>>, <<1, 0>>, <<0, -1>>, <<0, 1>>}

\* cv2.getStructuringElement(cv2.MORPH_ELLIPSE, (5, 5)): three full middle
\* rows and the centre of the first and last row.
KernelMedium == {<<dr, dc>> : dr \in (-1)..1, dc \in (-2)..2} \cup {<<-2, 0>>, <<2, 0>>}

\* The positions of the array under the kernel placed at p (the border of a
\* morphological operation does not take part in the minimum or maximum).
Under(a, kernel, p) == {<<p[1] + o[1], p[2] + o[2]>> : o \in kernel} \cap DOMAIN a

\* numpy and OpenCV compute an array eagerly: the array is evaluated once,
\* here by comparing it, before it is indexed.
Eager(a) == IF a = a THEN a ELSE a

Erode(a, kernel) ==
    Eager([p \in DOMAIN a |-> IF \A q \in Under(a, kernel, p) : a[q] = 255 THEN 255 ELSE 0])

Dilate(a, kernel) ==
    Eager([p \in DOMAIN a |-> IF \E q \in Under(a, kernel, p) : a[q] = 255 THEN 255 ELSE 0])

\* cv2.morphologyEx(a, cv2.MORPH_OPEN, kernel) and cv2.MORPH_CLOSE
MorphOpen(a, kernel) == Dilate(Erode(a, kernel), kernel)
MorphClose(a, kernel) == Erode(Dilate(a, kernel), kernel)

\* cv2.BORDER_REFLECT_101, the default border of GaussianBlur
Reflect101(i, n) ==
    IF n = 1 THEN 0
    ELSE IF i < 0 THEN 0 - i
    ELSE IF i >= n THEN 2 * (n - 1) - i
    ELSE i

\* The 3-tap Gaussian kernel of sigma 0.5 (0.107, 0.786, 0.107): in 8-bit
\* fixed point for uint8 arrays, in thousandths for float32 arrays.
GaussFixed == [d \in (-1)..1 |-> IF d = 0 THEN 202 ELSE 27]
GaussFloat == [d \in (-1)..1 |-> IF d = 0 THEN 786 ELSE 107]

\* Sum over the 3x3 window at p of weight[dr] * weight[dc] * a[...], for an
\* array a of h rows and w columns
Window(a, h, w, p, weight) ==
    LET term(dr, dc) == weight[dr] * weight[dc]
                            * a[<<Reflect101(p[1] + dr, h), Reflect101(p[2] + dc, w)>>]
    IN term(-1, -1) + term(-1, 0) + term(-1, 1)
        + term(0, -1) + term(0, 0) + term(0, 1)
        + term(1, -1) + term(1, 0) + term(1, 1)

\* cv2.GaussianBlur(a, (3, 3), 0.5) on a uint8 array: rounded to nearest
GaussianBlurUint8(a) ==
    LET h == Rows(a)
        w == Cols(a)
    IN Eager([p \in DOMAIN a |-> (Window(a, h, w, p, GaussFixed) + 32768) \div 65536])

\* cv2.GaussianBlur(a, (3, 3), 0.5) on a float32 array followed by
\* astype(np.uint8): truncated
GaussianBlurFloatTruncated(a) ==
    LET h == Rows(a)
        w == Cols(a)
    IN Eager([p \in DOMAIN a |-> Window(a, h, w, p, GaussFloat) \div 1000000])

\* _refine_mask up to the threshold: mask_smooth, the smoothed field
MaskSmooth(mask) ==
    LET mask_uint8 == Eager([p \in DOMAIN mask |-> IF mask[p] THEN 255 ELSE 0])
        mask_cleaned == MorphOpen(mask_uint8, KernelSmall)
        mask_filled == MorphClose(mask_cleaned, KernelMedium)
    IN GaussianBlurUint8(mask_filled)

\* mask_smooth > 127
Threshold127(mask_smooth) == Eager([p \in DOMAIN mask_smooth |-> mask_smooth[p] > 127])

\* _refine_mask
RefineMask(mask) == Threshold127(MaskSmooth(mask))

\* _apply_hq_transparency_mask: RGB copied, alpha the blurred 255/0 field
ApplyHqTransparencyMask(img, mask) ==
    LET alpha_channel == Eager([p \in DOMAIN mask |-> IF mask[p] THEN 0 ELSE 255])
        alpha_smooth == GaussianBlurFloatTruncated(alpha_channel)
    IN [p \in DOMAIN img.px |->
            <<img.px[p][1], img.px[p][2], img.px[p][3], alpha_smooth[p]>>]

\* Variant: the alpha channel is built from the mask before refinement.
HqStages_rawAlpha(img, target, tolerance) ==
    LET raw == Eager(CreateEnhancedColorMask(img, target, tolerance))
        refined == RefineMask(raw)
    IN [op |-> "remove_color_background_hq", tolerance |-> tolerance,
        raw |-> raw, smooth |-> MaskSmooth(raw), refined |-> refined,
        rgba |-> ApplyHqTransparencyMask(img, raw)]

\* The stages of remove_color_background_hq on a decoded image
HqStages(img, target, tolerance) ==
    LET raw == Eager(CreateEnhancedColorMask(img, target, tolerance))
        refined == RefineMask(raw)
    IN [op |-> "remove_color_background_hq", tolerance |-> tolerance,
        raw |-> raw, smooth |-> MaskSmooth(raw), refined |-> refined,
        rgba |-> ApplyHqTransparencyMask(img, refined)]

\* The two most recent entries of a log
LastTwo(log) == SubSeq(log, Max(1, Len(log) - 1), Len(log))

\* Image.save(output_path): the file holds what was written last
WriteFile(fs, path, content) ==
    [q \in DOMAIN fs \cup {path} |-> IF q = path THEN content ELSE fs[q]]

HqColors == {<<0, 0, 0>>, <<3, 3, 3>>, <<255, 255, 255>>}
HqTargets == {<<0, 0, 0>>, <<255, 255, 255>>}
HqTolerances == {0, MaxTol}

\* Single-row images over HqColors and single-column images in black and
\* white
HqImages ==
    UNION {{[height |-> 1, width |-> n, px |-> f] : f \in [{0} \X (0..(n - 1)) -> HqColors]}
            \cup {[height |-> n, width |-> 1, px |-> f] :
                    f \in [(0..(n - 1)) \X {0} -> {<<0, 0, 0>>, <<255, 255, 255>>}]} :
            n \in 1..MaxHqW}

InitHq ==
    /\ image \in HqImages
    /\ target_color \in HqTargets
    /\ mask_call = NoMaskCall
    /\ DetectIdle
    /\ kc = NoKc
    /\ ExtIdle

\* remove_color_background(input_path, "plain.png", target_color, tolerance)
RemoveColorBackgroundPlain ==
    /\ mask_call = NoMaskCall
    /\ hq_call = NoHqCall
    /\ \E tolerance \in HqTolerances :
        LET mask == CreateColorMask(image, target_color, tolerance)
            rgba == ApplyTransparencyMask(image, mask)
        IN /\ mask_call' = [op |-> "remove_color_background", tolerance |-> tolerance,
                            mask |-> mask, rgba |-> rgba]
           /\ files' = WriteFile(files, "plain.png", rgba)
           /\ UNCHANGED <<image, target_color, detectVars, kc, ui, hq_call, vec_call,
                          sp_call, rng, runs, threads>>

\* remove_color_background_hq(input_path, "hq.png", target_color, tolerance)
RemoveColorBackgroundHq ==
    /\ mask_call = NoMaskCall
    /\ \E tolerance \in HqTolerances :
        LET call == HqStages(image, target_color, tolerance)
        IN /\ hq_call' = call
           /\ runs' = LastTwo(Append(runs, call))
           /\ files' = WriteFile(files, "hq.png", call.rgba)
           /\ UNCHANGED <<image, target_color, mask_call, detectVars, kc, ui, vec_call,
                          sp_call, rng, threads>>

NextHq == RemoveColorBackgroundPlain \/ RemoveColorBackgroundHq

SpecHq == InitHq /\ [][NextHq]_vars

\* ======================================================== path synthesis
\* One path instruction.  A point is <<x, y>>; the end point of a curve is
\* kept doubled (twice |-> <<2x, 2y>>) because it has half-pixel coordinates.
MoveTo(pt) == [cmd |-> "M", pt |-> pt]
LineTo(pt) == [cmd |-> "L", pt |-> pt]
QuadTo(ctrl, twice) == [cmd |-> "Q", pt |-> ctrl, twice |-> twice]
ClosePath == [cmd |-> "Z"]

\* Twice curr_point + (next_point - curr_point) * 0.5, per coordinate
ControlTwice(curr_point, next_point) ==
    <<2 * curr_point[1] + (next_point[1] - curr_point[1]),
      2 * curr_point[2] + (next_point[2] - curr_point[2])>>

\* Variant: the next point wraps around, so the last vertex is curved too.
CreateSmoothPath_curvedLast(points, smooth_factor) ==
    IF Len(points) < 3 THEN <<>>
    ELSE <<MoveTo(points[1])>>
            \o [i \in 1..(Len(points) - 1) |->
                    LET curr_point == points[i + 1]
                    IN IF smooth_factor > 0
                       THEN QuadTo(curr_point,
                                   ControlTwice(curr_point, points[((i + 1) % Len(points)) + 1]))
                       ELSE LineTo(curr_point)]
            \o <<ClosePath>>

\* _create_smooth_path(contour, smooth_factor): the instructions of path_data
\* ("" when the contour has fewer than 3 points); i is the 0-based loop index
\* and smooth_factor is in tenths.
CreateSmoothPath(points, smooth_factor) ==
    IF Len(points) < 3 THEN <<>>
    ELSE <<MoveTo(points[1])>>
            \o [i \in 1..(Len(points) - 1) |->
                    LET curr_point == points[i + 1]
                    IN IF i < Len(points) - 1 /\ smooth_factor > 0
                       THEN QuadTo(curr_point, ControlTwice(curr_point, points[i + 2]))
                       ELSE LineTo(curr_point)]
            \o <<ClosePath>>

PathPoints == {0, 1, 4} \X {0, 1}
SmoothFactors == {0 - 5, 0, 5, 20}

RECURSIVE SeqsUpTo(_, _)
\* All sequences over S of length at most n
SeqsUpTo(S, n) ==
    IF n = 0 THEN {<<>>}
    ELSE LET shorter == SeqsUpTo(S, n - 1)
         IN shorter \cup {Append(q, x) : q \in {r \in shorter : Len(r) = n - 1}, x \in S}

InitSmoothPath ==
    /\ sp_call \in {[op |-> "pending", points |-> pts, smooth_factor |-> sf, path |-> <<>>] :
                        pts \in SeqsUpTo(PathPoints, MaxPathLen), sf \in SmoothFactors}
    /\ image = PatternImage(1, 1, 0, 0, 1)
    /\ DetectIdle
    /\ MaskIdle
    /\ kc = NoKc
    /\ hq_call = NoHqCall
    /\ vec_call = NoVecCall
    /\ rng = 0
    /\ runs = <<>>
    /\ threads = <<>>
    /\ files = <<>>
    /\ ui = NoUi

CreateSmoothPathCall ==
    /\ sp_call.op = "pending"
    /\ sp_call' = [sp_call EXCEPT !.op = "_create_smooth_path",
                                  !.path = CreateSmoothPath(sp_call.points, sp_call.smooth_factor)]
    /\ UNCHANGED <<image, detectVars, maskVars, kc, ui, hq_call, vec_call, rng, runs,
                   threads, files>>

NextSmoothPath == CreateSmoothPathCall

SpecSmoothPath == InitSmoothPath /\ [][NextSmoothPath]_vars

\* ============================================================ vectorizer
\* _get_detail_params: epsilon_factor in thousandths, smooth_factor in tenths,
\* blur_kernel (n, n) as n
GetDetailParams(detail_level) ==
    LET params ==
            [low |-> [blur_kernel |-> 5, adaptive_block_size |-> 11, adaptive_c |-> 2,
                      min_contour_area |-> 100, epsilon_factor |-> 20, smooth_factor |-> 20],
             medium |-> [blur_kernel |-> 3, adaptive_block_size |-> 9, adaptive_c |-> 2,
                         min_contour_area |-> 50, epsilon_factor |-> 10, smooth_factor |-> 15],
             high |-> [blur_kernel |-> 3, adaptive_block_size |-> 7, adaptive_c |-> 1,
                       min_contour_area |-> 25, epsilon_factor |-> 5, smooth_factor |-> 10],
             ultra |-> [blur_kernel |-> 1, adaptive_block_size |-> 5, adaptive_c |-> 1,
                        min_contour_area |-> 10, epsilon_factor |-> 2, smooth_factor |-> 5]]
    IN IF detail_level \in DOMAIN params THEN params[detail_level] ELSE params["high"]

\* A contour is a sequence of points <<x, y>>, closed from the last to the
\* first.  Successor of index i around the contour:
Around(contour, i) == IF i = Len(contour) THEN 1 ELSE i + 1

RECURSIVE ShoelaceSum(_, _)
ShoelaceSum(contour, i) ==
    IF i > Len(contour) THEN 0
    ELSE LET a == contour[i]
             b == contour[Around(contour, i)]
         IN (a[1] * b[2] - b[1] * a[2]) + ShoelaceSum(contour, i + 1)

\* Twice cv2.contourArea(contour) (the shoelace formula, unsigned)
ContourArea2(contour) == Abs(ShoelaceSum(contour, 1))

Dist2(a, b) == (a[1] - b[1]) * (a[1] - b[1]) + (a[2] - b[2]) * (a[2] - b[2])

\* The least r with r * r >= x
CeilSqrt(x) == CHOOSE r \in 0..x : r * r >= x /\ (r = 0 \/ (r - 1) * (r - 1) < x)

RECURSIVE ArcLengthUp(_, _)
\* cv2.arcLength(contour, True) with every edge length rounded up
ArcLengthUp(contour, i) ==
    IF i > Len(contour) THEN 0
    ELSE CeilSqrt(Dist2(contour[i], contour[Around(contour, i)])) + ArcLengthUp(contour, i + 1)

\* epsilon = params['epsilon_factor'] * cv2.arcLength(contour, True), in
\* hundredths of a pixel, rounded up
Epsilon100(contour, params) == (params.epsilon_factor * ArcLengthUp(contour, 1) + 9) \div 10

\* Whether point c lies within eps100 / 100 of the line through a and b (of
\* the point a when a = b)
WithinEpsilon(a, b, c, eps100) ==
    IF a = b THEN Dist2(a, c) * 10000 <= eps100 * eps100
    ELSE LET cross == (b[1] - a[1]) * (c[2] - a[2]) - (b[2] - a[2]) * (c[1] - a[1])
         IN cross * cross * 10000 <= eps100 * eps100 * Dist2(a, b)

\* The kept index before and after index i, around the contour
KeptBefore(kept, i) ==
    IF \E j \in kept : j < i THEN CHOOSE j \in kept : j < i /\ \A l \in kept : l < i => l <= j
    ELSE CHOOSE j \in kept : \A l \in kept : l <= j

KeptAfter(kept, i) ==
    IF \E j \in kept : j > i THEN CHOOSE j \in kept : j > i /\ \A l \in kept : l > i => l >= j
    ELSE CHOOSE j \in kept : \A l \in kept : l >= j

\* The elements of s at the indices in kept, in order
RECURSIVE Pick(_, _, _)
Pick(s, kept, i) ==
    IF i > Len(s) THEN <<>>
    ELSE (IF i \in kept THEN <<s[i]>> ELSE <<>>) \o Pick(s, kept, i + 1)

\* cv2.approxPolyDP(contour, epsilon, True) is a library routine
\* (Douglas-Peucker): its outcome is a polygon on some of the contour's
\* vertices, in their order, that leaves every dropped vertex within epsilon
\* of the line through the kept vertices around it.
ApproxPolyDP(contour, eps100) ==
    {Pick(contour, kept, 1) :
        kept \in {K \in SUBSET (1..Len(contour)) :
                    /\ K # {}
                    /\ \A i \in (1..Len(contour)) \ K :
                        WithinEpsilon(contour[KeptBefore(K, i)], contour[KeptAfter(K, i)],
                                      contour[i], eps100)}}

\* Variant: no contour is too small.
AreaPasses_always(contour, params) == ContourArea2(contour) >= 0

\* area >= params['min_contour_area']
AreaPasses(contour, params) == ContourArea2(contour) >= 2 * params.min_contour_area

RECURSIVE FilterAndSimplifyContours(_, _)
\* _filter_and_simplify_contours: the lists it may return, one per outcome of
\* approxPolyDP.  Each entry keeps the contour it was simplified from.
FilterAndSimplifyContours(contours, params) ==
    IF contours = <<>> THEN {<<>>}
    ELSE LET contour == Head(contours)
             rest == FilterAndSimplifyContours(Tail(contours), params)
         IN IF AreaPasses(contour, params)
            THEN {<<[points |-> simplified, source |-> contour]>> \o r :
                    simplified \in ApproxPolyDP(contour, Epsilon100(contour, params)),
                    r \in rest}
            ELSE rest

\* One <path> element: its instructions, its fill, and the contour it stems
\* from
PathElement(entry, fill, params) ==
    [d |-> CreateSmoothPath(entry.points, params.smooth_factor), fill |-> fill,
     points |-> entry.points, source |-> entry.source]

RECURSIVE HqPaths_anyLength(_, _)
\* Variant: every contour gets a path element, whatever its length.
HqPaths_anyLength(filtered, params) ==
    IF filtered = <<>> THEN <<>>
    ELSE <<PathElement(Head(filtered), "black", params)>>
            \o HqPaths_anyLength(Tail(filtered), params)

RECURSIVE HqPaths(_, _)
\* _create_hq_svg_from_contours: the path elements, in order
HqPaths(filtered, params) ==
    IF filtered = <<>> THEN <<>>
    ELSE (IF Len(Head(filtered).points) >= 3
          THEN <<PathElement(Head(filtered), "black", params)>>
          ELSE <<>>) \o HqPaths(Tail(filtered), params)

RECURSIVE RegionPaths_unfiltered(_, _, _)
\* Variant: the contours of a color are not filtered by area.
RegionPaths_unfiltered(contours, color, params) ==
    IF contours = <<>> THEN {<<>>}
    ELSE LET contour == Head(contours)
             rest == RegionPaths_unfiltered(Tail(contours), color, params)
         IN {(IF Len(simplified) >= 3
              THEN <<PathElement([points |-> simplified, source |-> contour],
                                 color, params)>>
              ELSE <<>>) \o r :
                simplified \in ApproxPolyDP(contour, Epsilon100(contour, params)),
                r \in rest}

RECURSIVE RegionPaths(_, _, _)
\* _create_colored_svg_hq, the loop over the contours of one color: the
\* lists of path elements it may add
RegionPaths(contours, color, params) ==
    IF contours = <<>> THEN {<<>>}
    ELSE LET contour == Head(contours)
             rest == RegionPaths(Tail(contours), color, params)
         IN IF AreaPasses(contour, params)
            THEN {(IF Len(simplified) >= 3
                   THEN <<PathElement([points |-> simplified, source |-> contour],
                                      color, params)>>
                   ELSE <<>>) \o r :
                    simplified \in ApproxPolyDP(contour, Epsilon100(contour, params)),
                    r \in rest}
            ELSE rest

RECURSIVE ColoredPaths(_, _)
\* _create_colored_svg_hq, the loop over unique_colors: regions is the list
\* of [color, contours] in the order of np.unique
ColoredPaths(regions, params) ==
    IF regions = <<>> THEN {<<>>}
    ELSE {first \o r :
            first \in RegionPaths(Head(regions).contours, Head(regions).color, params),
            r \in ColoredPaths(Tail(regions), params)}

White == <<255, 255, 255>>
Black == <<0, 0, 0>>
Grey == <<128, 128, 128>>

\* Images of the vectorizer: canvases of one color, a white canvas holding a
\* black square off the border, and a white block beside a black block.
UniformImage(h, w, c) ==
    [height |-> h, width |-> w, px |-> [p \in (0..(h - 1)) \X (0..(w - 1)) |-> c]]

SquareImage(n, o, size) ==
    [height |-> n, width |-> n,
     px |-> [p \in (0..(n - 1)) \X (0..(n - 1)) |->
                IF p[1] \in o..(o + size - 1) /\ p[2] \in o..(o + size - 1)
                THEN Black ELSE White]]

TwoBlockImage(h, w, c) ==
    [height |-> h, width |-> w,
     px |-> [p \in (0..(h - 1)) \X (0..(w - 1)) |-> IF p[2] < c THEN White ELSE Black]]

SquareImages == {SquareImage(6, 2, 2), SquareImage(MaxCanvas, 1, 3)}
MixedImages == SquareImages \cup {TwoBlockImage(2, 51, 25)}

VecImages ==
    {UniformImage(h, w, c) : h \in 1..MaxCanvas, w \in 1..MaxCanvas, c \in {White, Black}}
        \cup MixedImages

IsUniform(img) == Cardinality({img.px[p] : p \in DOMAIN img.px}) = 1

\* cv2.cvtColor(image, cv2.COLOR_BGR2GRAY) at one pixel
Gray(c) == (299 * c[1] + 587 * c[2] + 114 * c[3] + 500) \div 1000

\* The contour of a filled rectangle of pixels, columns x0..x1 and rows
\* y0..y1, as findContours returns it: through the centres of its corner
\* pixels, repeated points left out
RectContour(x0, y0, x1, y1) ==
    IF x0 = x1 /\ y0 = y1 THEN <<<<x0, y0>>>>
    ELSE IF y0 = y1 THEN <<<<x0, y0>>, <<x1, y0>>>>
    ELSE IF x0 = x1 THEN <<<<x0, y0>>, <<x0, y1>>>>
    ELSE <<<<x0, y0>>, <<x0, y1>>, <<x1, y1>>, <<x1, y0>>>>

\* Contours a library call may return on an image whose binary form is not
\* modelled: up to MaxContours of these, as far as they fit in the image.
ContourPool ==
    {<<<<1, 1>>, <<3, 1>>>>,            \* a line, area 0
     RectContour(1, 1, 4, 4),           \* area 9
     RectContour(0, 0, 5, 5),           \* area 25
     RectContour(0, 0, 50, 1),          \* area 50, thin
     RectContour(0, 0, 10, 10)}         \* area 100

FitsIn(contour, img) ==
    \A i \in DOMAIN contour : contour[i][1] < img.width /\ contour[i][2] < img.height

ContourLists(img) == SeqsUpTo({c \in ContourPool : FitsIn(c, img)}, MaxContours)

\* cv2.findContours(binary, cv2.RETR_EXTERNAL, ...) where bright is the set
\* of nonzero positions <<row, col>>: no contour on an empty set; the
\* rectangle of the bounding box when its whole perimeter is nonzero (holes
\* and what they hold are not outer contours); otherwise not modelled.
FindContoursExternal(img, bright) ==
    IF bright = {} THEN {<<>>}
    ELSE LET rows == {p[1] : p \in bright}
             cols == {p[2] : p \in bright}
             y0 == CHOOSE r \in rows : \A q \in rows : r <= q
             y1 == CHOOSE r \in rows : \A q \in rows : r >= q
             x0 == CHOOSE c \in cols : \A q \in cols : c <= q
             x1 == CHOOSE c \in cols : \A q \in cols : c >= q
             perimeter == {p \in (y0..y1) \X (x0..x1) :
                            p[1] \in {y0, y1} \/ p[2] \in {x0, x1}}
         IN IF perimeter \subseteq bright THEN {<<RectContour(x0, y0, x1, y1)>>}
            ELSE ContourLists(img)

\* The binary image of vectorize: cv2.threshold(gray, 127, 255, THRESH_BINARY)
ThresholdBinary(img) == {p \in DOMAIN img.px : Gray(img.px[p]) > 127}

\* The contours vectorize_hq finds.  On a canvas of one color the
\* preprocessed image is of one color, the adaptive threshold (pixel > mean -
\* C) sets every pixel to 255 and the contour is the canvas rectangle; on a
\* mixed image the binary image is not modelled.
HqContours(img) ==
    IF IsUniform(img) THEN FindContoursExternal(img, DOMAIN img.px)
    ELSE ContourLists(img)

\* The color a canvas of one color has after _preprocess_for_vectorization
\* (blur, CLAHE on the lightness): white stays white, another color becomes
\* some color.
PreprocessedColors(c) == IF c = White THEN {White} ELSE {Black, Grey}

VecNumColors == {2, 3}

\* The color regions _create_colored_svg_hq finds in the reduced image, in
\* the order of np.unique: at most num_colors colors (the rows of centers).
\* On a canvas of one color the single region is the canvas; on a mixed image
\* the reduced image is not modelled.
ColorRegions(img, num_colors) ==
    IF IsUniform(img)
    THEN {<<[color |-> c, contours |-> contours]>> :
            c \in PreprocessedColors(img.px[<<0, 0>>]),
            contours \in FindContoursExternal(img, DOMAIN img.px)}
    ELSE UNION {
            LET colors == SortedColors(C)
            IN {[i \in 1..Len(colors) |-> [color |-> colors[i], contours |-> f[i]]] :
                    f \in {g \in [1..Len(colors) -> ContourLists(img)] :
                            LET total[i \in 0..Len(colors)] ==
                                    IF i = 0 THEN 0 ELSE total[i - 1] + Len(g[i])
                            IN total[Len(colors)] <= MaxContours}} :
            C \in {D \in SUBSET {Black, Grey, White} : D # {} /\ Cardinality(D) <= num_colors}}

DetailLevels == {"low", "medium", "high", "ultra", "other"}

InitVector ==
    /\ image \in VecImages
    /\ vec_call = NoVecCall
    /\ DetectIdle
    /\ MaskIdle
    /\ kc = NoKc
    /\ hq_call = NoHqCall
    /\ sp_call = NoSpCall
    /\ rng = 0
    /\ runs = <<>>
    /\ threads = <<>>
    /\ files = <<>>
    /\ ui = NoUi

\* vectorize(input_path, "out.svg"): the contours are found, then
\* self._create_svg_from_contours is called, which Vectorizer does not
\* define; the AttributeError is printed and raised again, no file is written.
Vectorize ==
    /\ vec_call = NoVecCall
    /\ \E contours \in FindContoursExternal(image, ThresholdBinary(image)) :
        vec_call' = [op |-> "vectorize", detail_level |-> "none", num_colors |-> 0,
                     found |-> contours, paths |-> <<>>,
                     result |-> Raise("AttributeError")]
    /\ UNCHANGED <<image, detectVars, maskVars, kc, ui, hq_call, sp_call, rng, runs,
                   threads, files>>

\* vectorize_hq(input_path, "out.svg", detail_level)
VectorizeHq ==
    /\ vec_call = NoVecCall
    /\ \E detail_level \in DetailLevels :
        LET params == GetDetailParams(detail_level)
        IN \E contours \in HqContours(image) :
            \E filtered \in FilterAndSimplifyContours(contours, params) :
                LET paths == HqPaths(filtered, params)
                IN /\ vec_call' = [op |-> "vectorize_hq", detail_level |-> detail_level,
                                   num_colors |-> 0, found |-> contours, paths |-> paths,
                                   result |-> Return("out.svg")]
                   /\ files' = WriteFile(files, "out.svg",
                                         [width |-> image.width, height |-> image.height,
                                          paths |-> paths])
    /\ UNCHANGED <<image, detectVars, maskVars, kc, ui, hq_call, sp_call, rng, runs, threads>>

\* vectorize_with_colors_hq(input_path, "out.svg", num_colors, detail_level).
\* KMeans raises ValueError when the image has fewer pixels than num_colors.
VectorizeWithColorsHq ==
    /\ vec_call = NoVecCall
    /\ \E detail_level \in DetailLevels, num_colors \in VecNumColors :
        LET params == GetDetailParams(detail_level)
        IN IF image.height * image.width < num_colors
           THEN /\ vec_call' = [op |-> "vectorize_with_colors_hq",
                                detail_level |-> detail_level, num_colors |-> num_colors,
                                found |-> <<>>, paths |-> <<>>,
                                result |-> Raise("ValueError")]
                /\ UNCHANGED files
           ELSE \E regions \in ColorRegions(image, num_colors) :
                    \E paths \in ColoredPaths(regions, params) :
                        /\ vec_call' = [op |-> "vectorize_with_colors_hq",
                                        detail_level |-> detail_level,
                                        num_colors |-> num_colors, found |-> regions,
                                        paths |-> paths, result |-> Return("out.svg")]
                        /\ files' = WriteFile(files, "out.svg",
                                              [width |-> image.width, height |-> image.height,
                                               paths |-> paths])
    /\ UNCHANGED <<image, detectVars, maskVars, kc, ui, hq_call, sp_call, rng, runs, threads>>

NextVector == Vectorize \/ VectorizeHq \/ VectorizeWithColorsHq

SpecVector == InitVector /\ [][NextVector]_vars

\* ============================================== transparency-mask claims
ImagePositions == (0..(image.height - 1)) \X (0..(image.width - 1))

\* C11: the RGBA result of applying a mask has the width and height of the
\* source image, its R, G and B equal the source pixel at every position,
\* masked or not, and in remove_color_background the alpha is 0 exactly where
\* the mask is true and 255 everywhere else.
C11_FrameEffect ==
    /\ mask_call.op = "remove_color_background" =>
            /\ DOMAIN mask_call.rgba = ImagePositions
            /\ \A p \in ImagePositions :
                /\ SubSeq(mask_call.rgba[p], 1, 3) = image.px[p]
                /\ mask_call.rgba[p][4] = (IF mask_call.mask[p] THEN 0 ELSE 255)
            /\ files["plain.png"] = mask_call.rgba
    /\ hq_call.op = "remove_color_background_hq" =>
            /\ DOMAIN hq_call.rgba = ImagePositions
            /\ \A p \in ImagePositions : SubSeq(hq_call.rgba[p], 1, 3) = image.px[p]
            /\ files["hq.png"] = hq_call.rgba

C11_Witness ==
    /\ mask_call.op = "remove_color_background"
    /\ \E p, q \in ImagePositions :
        /\ mask_call.mask[p]
        /\ ~mask_call.mask[q]
        /\ mask_call.rgba[p] = <<255, 255, 255, 0>>
        /\ mask_call.rgba[q] = <<3, 3, 3, 255>>

HqAlpha(call) == [p \in DOMAIN call.rgba |-> call.rgba[p][4]]

C17_InstructionSequence ==
    (sp_call.op = "_create_smooth_path" /\ Len(sp_call.points) >= 3) =>
        LET v == sp_call.points
            n == Len(v)
            path == sp_call.path
        IN /\ Len(path) = n + 1
           /\ path[1] = [cmd |-> "M", pt |-> v[1]]
           /\ \A i \in 1..(n - 2) :
                path[i + 1] = IF sp_call.smooth_factor > 0
                              THEN [cmd |-> "Q", pt |-> v[i + 1],
                                    twice |-> <<v[i + 1][1] + v[i + 2][1],
                                                v[i + 1][2] + v[i + 2][2]>>]
                              ELSE [cmd |-> "L", pt |-> v[i + 1]]
           /\ path[n] = [cmd |-> "L", pt |-> v[n]]
           /\ path[n + 1] = [cmd |-> "Z"]

C17_Witness ==
    /\ sp_call.op = "_create_smooth_path"
    /\ Len(sp_call.points) = 4
    /\ sp_call.smooth_factor > 0
    /\ sp_call.path[2].cmd = "Q"
    /\ sp_call.path[3].cmd = "Q"
    /\ sp_call.path[3].twice = <<5, 1>>
    /\ sp_call.path[4].cmd = "L"

\* ====================================================== vectorizer claims
VecReturned == vec_call.op # "none" /\ vec_call.result.kind = "return"

HqOps == {"vectorize_hq", "vectorize_with_colors_hq"}

\* C13: vectorize and vectorize_hq applied to a pure white canvas of any size
\* complete without error and produce a document containing zero paths.
C13_WhiteCanvasNoPaths ==
    (vec_call.op \in {"vectorize", "vectorize_hq"} /\ IsUniform(image)
        /\ image.px[<<0, 0>>] = White) =>
            /\ vec_call.result.kind = "return"
            /\ "out.svg" \in DOMAIN files
            /\ files["out.svg"].paths = <<>>

\* The black pixels of the image and the corners of their bounding box
DarkPixels == {p \in DOMAIN image.px : image.px[p] = Black}
Least(S) == CHOOSE x \in S : \A y \in S : x <= y
Greatest(S) == CHOOSE x \in S : \A y \in S : x >= y

\* C14: vectorize applied to an image holding one filled black square on a
\* white background returns exactly one path, whose vertex count is at most
\* the number of boundary pixels of the square and whose bounding box equals
\* the square's pixel bounds within 1 pixel.
C14_BlackSquareOnePath ==
    (vec_call.op = "vectorize" /\ image \in SquareImages) =>
        /\ vec_call.result.kind = "return"
        /\ "out.svg" \in DOMAIN files
        /\ Len(files["out.svg"].paths) = 1
        /\ LET pts == files["out.svg"].paths[1].points
               xs == {pts[i][1] : i \in DOMAIN pts}
               ys == {pts[i][2] : i \in DOMAIN pts}
               rows == {p[1] : p \in DarkPixels}
               cols == {p[2] : p \in DarkPixels}
               side == Cardinality(rows)
           IN /\ Len(pts) <= 4 * (side - 1)
              /\ Abs(Least(xs) - Least(cols)) <= 1
              /\ Abs(Greatest(xs) - Greatest(cols)) <= 1
              /\ Abs(Least(ys) - Least(rows)) <= 1
              /\ Abs(Greatest(ys) - Greatest(rows)) <= 1

\* C15: every path written by vectorize_hq or vectorize_with_colors_hq is
\* built from at least 3 vertices: a contour or simplified path with fewer
\* than 3 points never produces a path element, and no path has empty
\* instruction data.
C15_AtLeastThreeVertices ==
    (vec_call.op \in HqOps /\ vec_call.result.kind = "return") =>
        /\ files["out.svg"].paths = vec_call.paths
        /\ \A i \in DOMAIN vec_call.paths :
            LET path == vec_call.paths[i]
            IN /\ Len(path.source) >= 3
               /\ Len(path.points) >= 3
               /\ path.d # <<>>
               /\ Cardinality({j \in DOMAIN path.d : path.d[j].cmd # "Z"}) >= 3

\* A contour large enough for the level whose simplification came out with
\* fewer than 3 points and was dropped, beside a contour that got its path.
C15_Witness ==
    /\ vec_call.op = "vectorize_hq"
    /\ vec_call.result.kind = "return"
    /\ Len(vec_call.found) = 2
    /\ Len(vec_call.paths) = 1
    /\ \A i \in DOMAIN vec_call.found :
        2 * GetDetailParams(vec_call.detail_level).min_contour_area
            <= ContourArea2(vec_call.found[i])

\* The contours found by the call, over all color regions
FoundContours ==
    IF vec_call.op = "vectorize_with_colors_hq"
    THEN UNION {Range(vec_call.found[i].contours) : i \in DOMAIN vec_call.found}
    ELSE Range(vec_call.found)

\* C16: no path in the output of vectorize_hq or vectorize_with_colors_hq
\* comes from a contour whose enclosed area is below the min_contour_area of
\* the selected detail level.
C16_NoSmallAreaPath ==
    (vec_call.op \in HqOps /\ vec_call.result.kind = "return") =>
        \A i \in DOMAIN files["out.svg"].paths :
            LET path == files["out.svg"].paths[i]
            IN /\ path.source \in FoundContours
               /\ ContourArea2(path.source)
                    >= 2 * GetDetailParams(vec_call.detail_level).min_contour_area

\* A contour of positive area below the minimum was found and has no path,
\* while another contour has one.
C16_Witness ==
    /\ vec_call.op = "vectorize_with_colors_hq"
    /\ vec_call.result.kind = "return"
    /\ Len(vec_call.paths) = 1
    /\ \E c \in FoundContours :
        /\ ContourArea2(c) > 0
        /\ ContourArea2(c) < 2 * GetDetailParams(vec_call.detail_level).min_contour_area
        /\ c # vec_call.paths[1].source

FillColors == {vec_call.paths[i].fill : i \in DOMAIN vec_call.paths}

RECURSIVE EnclosedArea2(_)
\* Twice the area the paths enclose
EnclosedArea2(paths) ==
    IF paths = <<>> THEN 0 ELSE ContourArea2(Head(paths).points) + EnclosedArea2(Tail(paths))

RngStates == 16

\* the state after one draw
RngNext(s) == (5 * s + 3) % RngStates

\* the state after n draws
RECURSIVE RngAfter(_, _)
RngAfter(s, n) == IF n = 0 THEN s ELSE RngAfter(RngNext(s), n - 1)

\* One sample of np.random.normal(0, 1e-6) drawn in state s, scaled by 255
\* and given in thousandths of a color level: a tiny offset on either side
\* of zero.
NormalDraw(s) == IF s < RngStates \div 2 THEN 0 - 1 ELSE 1

\* noise = np.random.normal(0, 1e-6, unique_pixels_normalized.shape): one
\* draw per channel of each distinct color, in row-major order.
Noise(s, distinct) ==
    [j \in 1..distinct |-> [c \in 1..3 |-> NormalDraw(RngAfter(s, 3 * (j - 1) + (c - 1)))]]

\* np.clip(unique_pixels / 255.0 + noise, 0, 1), in thousandths of a level
NoisyPixels(uniq, noise) ==
    [j \in DOMAIN uniq |->
        [c \in 1..3 |-> Max(0, Min(uniq[j][c] * 1000 + noise[j][c], 255000))]]

RECURSIVE SumChannel(_, _, _)
SumChannel(points, members, c) ==
    IF members = {} THEN 0
    ELSE LET j == CHOOSE j \in members : TRUE
         IN points[j][c] + SumChannel(points, members \ {j}, c)

\* tuple(map(int, np.clip(cluster_centers[cluster_id], 0, 255))): the mean of
\* the cluster's noisy members, scaled back and truncated.
NoisyCenter(points, labels, cluster_id) ==
    LET members == {j \in DOMAIN points : labels[j] = cluster_id}
    IN [c \in 1..3 |->
          Max(0, Min(SumChannel(points, members, c) \div (Cardinality(members) * 1000), 255))]

\* The loop over cluster_counts.most_common(num_suggestions), with the colors
\* computed from the noisy points.
NoisySuggestions(pixels, uniq, noise, labels, n) ==
    LET ol == OriginalLabels(labels, InverseIndices(pixels, uniq))
        mc == MostCommonN(Counter(ol), n)
        points == NoisyPixels(uniq, noise)
    IN [i \in DOMAIN mc |->
            Candidate(NoisyCenter(points, labels, mc[i].key), mc[i].count,
                      TotalEdgePixels(pixels))]

\* Body of the try block of detect_background_colors with concrete colors.
NoisyDetectBody(pixels, uniq, noise, n, km) ==
    IF Len(pixels) = 0 THEN Return(<<>>)
    ELSE IF Len(pixels) < 10 THEN FallbackColorDetectionSimple
    ELSE IF Len(uniq) < 5 THEN FallbackColorDetectionSimple
    ELSE IF km.status = "raised" THEN FallbackColorDetection
    ELSE Return(NoisySuggestions(pixels, uniq, noise, km.labels, n))

\* Images whose border holds five distinct colors, and one of a single color.
RepeatImages ==
    {PatternImage(2, 5, 0, 1, 5), PatternImage(5, 2, 1, 0, 5), PatternImage(2, 5, 0, 1, 1)}

InitRepeat ==
    /\ image \in RepeatImages
    /\ DetectIdle
    /\ MaskIdle
    /\ kc = NoKc
    /\ hq_call = NoHqCall
    /\ vec_call = NoVecCall
    /\ sp_call = NoSpCall
    /\ rng \in 0..(RngStates - 1)
    /\ runs = <<>>
    /\ threads = <<>>
    /\ files = <<>>
    /\ ui = NoUi

\* detect_background_colors(image, n) in a process whose generator is in
\* state rng.  KMeans has random_state=42: on the same image it computes the
\* same labelling in every run.
DetectRepeat(n) ==
    /\ Len(runs) < 2
    /\ LET pixels == EdgePixels(image)
           uniq == NpUnique(pixels)
           clusters == ClusterCount(n, Len(uniq))
           reached == Len(pixels) >= 10 /\ Len(uniq) >= 5
           draws == IF reached THEN 3 * Len(uniq) ELSE 0
           noise == Noise(rng, Len(uniq))
       IN \E km \in (IF reached THEN KMeansOutcomes(Len(uniq), clusters) ELSE {NoKMeans}) :
            /\ runs # <<>> => km = kmeans
            /\ LET res == DetectExcept(NoisyDetectBody(pixels, uniq, noise, n, km))
               IN /\ result' = res
                  /\ runs' = Append(runs, [num_suggestions |-> n, result |-> res])
            /\ fn' = "detect_background_colors"
            /\ num_suggestions' = n
            /\ edge_positions' = EdgePositions(image.height, image.width)
            /\ edge_pixels' = pixels
            /\ unique_pixels' = IF Len(pixels) >= 10 THEN uniq ELSE <<>>
            /\ k' = IF reached THEN clusters ELSE 0
            /\ kmeans' = km
            /\ original_labels' = IF km.status = "ok"
                                  THEN OriginalLabels(km.labels, InverseIndices(pixels, uniq))
                                  ELSE <<>>
            /\ rng' = RngAfter(rng, draws)
            /\ UNCHANGED <<image, maskVars, kc, ui, hq_call, vec_call, sp_call, threads, files>>

DetectBackgroundColorsAgain == \E n \in 1..MaxSuggestions : DetectRepeat(n)

\* Any other call in the process that draws from np.random (a detection on
\* another image, for one): it leaves the generator in a later state.
OtherDraw ==
    /\ rng' = RngNext(rng)
    /\ UNCHANGED <<image, detectVars, maskVars, kc, ui, hq_call, vec_call, sp_call,
                   runs, threads, files>>

NextRepeat == DetectBackgroundColorsAgain \/ OtherDraw

SpecRepeat == InitRepeat /\ [][NextRepeat]_vars

\* C19: two runs of detect_background_colors on the same image with the same
\* num_suggestions return identical candidate colors, ordering and coverage
\* values, whatever calls happened in between.
C19_RepeatedRunsAgree ==
    (Len(runs) = 2 /\ runs[1].num_suggestions = runs[2].num_suggestions)
        => runs[1].result = runs[2].result

\* ------------------------------------------------- calls in two threads
\* A single-row image with the given colors
RowImage(colors) ==
    [height |-> 1, width |-> Len(colors),
     px |-> [p \in {0} \X (0..(Len(colors) - 1)) |-> colors[p[2] + 1]]]

\* Input files are named <<directory, stem>>.
InputPaths ==
    {<<"a", "photo">>, <<"b", "scan">>, <<"a", "logo">>, <<"b", "logo">>, <<"b", "icon">>}

\* cv2.imread(image_path): what each input file decodes to
ImageAt(image_path) ==
    CASE image_path = <<"a", "photo">> -> PatternImage(2, 5, 0, 1, 5)
      [] image_path = <<"b", "scan">> -> PatternImage(5, 2, 1, 0, 5)
      [] image_path = <<"a", "logo">> -> RowImage(<<White, Black>>)
      [] image_path = <<"b", "logo">> -> RowImage(<<Black, White, White>>)
      [] OTHER -> RowImage(<<White, White>>)

\* temp_dir / f"bg_preview_{input_path.stem}.png"
PreviewPath(image_path) == <<"image_editor_previews", "bg_preview_", image_path[2], ".png">>

DetectJobs ==
    {[operation |-> "detect_background_colors", image_path |-> ip, num_suggestions |-> n,
      target_color |-> Black, tolerance |-> 0] :
        ip \in {<<"a", "photo">>, <<"b", "scan">>}, n \in {1}}

PreviewJobs ==
    {[operation |-> "background_removal_preview", image_path |-> ip, num_suggestions |-> 0,
      target_color |-> White, tolerance |-> tol] :
        ip \in {<<"a", "logo">>, <<"b", "logo">>, <<"b", "icon">>}, tol \in HqTolerances}

\* A thread that has not started running its job; seed is the state the
\* generator is in when the threads are started.
NewThread(job, seed) ==
    [job |-> job, pc |-> "ready", kmeans |-> NoKMeans, result |-> NoResult, seed |-> seed]

\* Generator states the threads are started in
ThreadSeeds == {0, 3, 8, 13}

\* Two threads, each given its own input file.
InitThreads ==
    /\ rng \in ThreadSeeds
    /\ \E j1 \in DetectJobs \cup PreviewJobs, j2 \in DetectJobs \cup PreviewJobs :
          /\ j1.image_path # j2.image_path
          /\ threads = <<NewThread(j1, rng), NewThread(j2, rng)>>
          /\ image = ImageAt(j1.image_path)
    /\ DetectIdle
    /\ MaskIdle
    /\ kc = NoKc
    /\ hq_call = NoHqCall
    /\ vec_call = NoVecCall
    /\ sp_call = NoSpCall
    /\ runs = <<>>
    /\ files = <<>>
    /\ ui = NoUi

\* detect_background_colors(image_path, n) run with the generator in state s
\* and k-means labelling km
DetectWith(job, s, km) ==
    LET pixels == EdgePixels(ImageAt(job.image_path))
        uniq == NpUnique(pixels)
    IN DetectExcept(NoisyDetectBody(pixels, uniq, Noise(s, Len(uniq)),
                                    job.num_suggestions, km))

\* Thread i runs detect_background_colors: the draw at line 199 reads and
\* advances the generator of the process.
ThreadDetect(i) ==
    /\ threads[i].pc = "ready"
    /\ threads[i].job.operation = "detect_background_colors"
    /\ LET job == threads[i].job
           pixels == EdgePixels(ImageAt(job.image_path))
           uniq == NpUnique(pixels)
           clusters == ClusterCount(job.num_suggestions, Len(uniq))
           reached == Len(pixels) >= 10 /\ Len(uniq) >= 5
       IN \E km \in (IF reached THEN KMeansOutcomes(Len(uniq), clusters) ELSE {NoKMeans}) :
            /\ threads' = [threads EXCEPT ![i].pc = "done", ![i].kmeans = km,
                                          ![i].result = DetectWith(job, rng, km)]
            /\ rng' = RngAfter(rng, IF reached THEN 3 * Len(uniq) ELSE 0)
            /\ image' = ImageAt(job.image_path)
            /\ UNCHANGED <<detectVars, maskVars, kc, ui, hq_call, vec_call, sp_call, runs, files>>

\* PreviewThread.run, 'background_removal_preview': remove_color_background_hq
\* writes the preview file.
ThreadPreviewWrite(i) ==
    /\ threads[i].pc = "ready"
    /\ threads[i].job.operation = "background_removal_preview"
    /\ LET job == threads[i].job
           call == HqStages(ImageAt(job.image_path), job.target_color, job.tolerance)
       IN /\ files' = WriteFile(files, PreviewPath(job.image_path), call.rgba)
          /\ threads' = [threads EXCEPT ![i].pc = "written"]
          /\ image' = ImageAt(job.image_path)
          /\ UNCHANGED <<detectVars, maskVars, kc, ui, hq_call, vec_call, sp_call, rng, runs>>

\* self.preview_ready.emit(str(preview_path), "background_removal")
ThreadPreviewEmit(i) ==
    /\ threads[i].pc = "written"
    /\ threads' = [threads EXCEPT ![i].pc = "done",
                                  ![i].result = Return(PreviewPath(threads[i].job.image_path))]
    /\ UNCHANGED <<image, detectVars, maskVars, kc, ui, hq_call, vec_call, sp_call, rng,
                   runs, files>>

DetectInThread == \E i \in DOMAIN threads : ThreadDetect(i)

PreviewWriteInThread == \E i \in DOMAIN threads : ThreadPreviewWrite(i)

PreviewEmitInThread == \E i \in DOMAIN threads : ThreadPreviewEmit(i)

NextThreads == DetectInThread \/ PreviewWriteInThread \/ PreviewEmitInThread

SpecThreads == InitThreads /\ [][NextThreads]_vars

\* C20: each of two calls on independent images running in separate threads
\* produces the result and the output file it produces when run alone, in
\* every interleaving.
C20_ThreadsAsAlone ==
    \A i \in DOMAIN threads :
        LET t == threads[i]
        IN /\ (t.job.operation = "detect_background_colors" /\ t.pc = "done")
                => t.result = DetectWith(t.job, t.seed, t.kmeans)
           /\ (t.job.operation = "background_removal_preview" /\ t.pc \in {"written", "done"})
                => /\ PreviewPath(t.job.image_path) \in DOMAIN files
                   /\ files[PreviewPath(t.job.image_path)] =
                        HqStages(ImageAt(t.job.image_path), t.job.target_color,
                                 t.job.tolerance).rgba

\* ------------------------------- remove_color_background and its arguments
\* A str is the sequence of the code points of its characters.
Alphabet == <<"a", "b", "c", "d", "e", "f", "g", "h", "i", "j", "k", "l", "m", "n", "o",
              "p", "q", "r", "s", "t", "u", "v", "w", "x", "y", "z">>
Capitals == <<"A", "B", "C", "D", "E", "F", "G", "H", "I", "J", "K", "L", "M", "N", "O",
              "P", "Q", "R", "S", "T", "U", "V", "W", "X", "Y", "Z">>

\* ord(ch) for a letter or a space
Ord(ch) ==
    IF \E i \in DOMAIN Alphabet : Alphabet[i] = ch
    THEN 96 + (CHOOSE i \in DOMAIN Alphabet : Alphabet[i] = ch)
    ELSE IF \E i \in DOMAIN Capitals : Capitals[i] = ch
    THEN 64 + (CHOOSE i \in DOMAIN Capitals : Capitals[i] = ch)
    ELSE 32

Str(chars) == [i \in DOMAIN chars |-> Ord(chars[i])]

\* str.lower() on one character and on a str
LowerChar(ch) == IF ch \in 65..90 THEN ch + 32 ELSE ch

StrLower(str) == [i \in DOMAIN str |-> LowerChar(str[i])]

\* color_map of _parse_color_name
ColorMap(name) ==
    CASE name = Str(<<"w", "h", "i", "t", "e">>) -> <<255, 255, 255>>
      [] name = Str(<<"b", "l", "a", "c", "k">>) -> <<0, 0, 0>>
      [] name = Str(<<"r", "e", "d">>) -> <<255, 0, 0>>
      [] name = Str(<<"g", "r", "e", "e", "n">>) -> <<0, 255, 0>>
      [] name = Str(<<"b", "l", "u", "e">>) -> <<0, 0, 255>>
      [] name = Str(<<"y", "e", "l", "l", "o", "w">>) -> <<255, 255, 0>>
      [] name = Str(<<"c", "y", "a", "n">>) -> <<0, 255, 255>>
      [] name = Str(<<"m", "a", "g", "e", "n", "t", "a">>) -> <<255, 0, 255>>
      [] name = Str(<<"g", "r", "a", "y">>) -> <<128, 128, 128>>
      [] name = Str(<<"g", "r", "e", "y">>) -> <<128, 128, 128>>
      [] OTHER -> <<>>

\* Variant: an unknown name is taken to mean white.
ParseColorName_defaultWhite(color_name) ==
    LET color_name_lower == StrLower(color_name)
    IN IF ColorMap(color_name_lower) # <<>> THEN Return(ColorMap(color_name_lower))
       ELSE Return(<<255, 255, 255>>)

\* _parse_color_name
ParseColorName(color_name) ==
    LET color_name_lower == StrLower(color_name)
    IN IF ColorMap(color_name_lower) # <<>> THEN Return(ColorMap(color_name_lower))
       ELSE Raise("ValueError")

\* cv2.imread returned None
NoImage == [height |-> 0, width |-> 0, px |-> <<>>]

\* The target color parsed: a str through _parse_color_name, a tuple or list
\* of three items as it is, anything else rejected.
ParseTarget(target) ==
    IF target.type = "str" THEN ParseColorName(target.value)
    ELSE IF target.type \in {"tuple", "list"} /\ Len(target.value) = 3 THEN Return(target.value)
    ELSE Raise("ValueError")

\* The try block of remove_color_background: result, and what Image.save
\* wrote, if it was reached.
RemoveColorBackgroundBody(img, target, tolerance) ==
    IF img = NoImage THEN [result |-> Raise("ValueError"), saved |-> <<>>]
    ELSE LET color == ParseTarget(target)
         IN IF color.kind = "raise" THEN [result |-> color, saved |-> <<>>]
            ELSE LET mask == CreateColorMask(img, color.value, tolerance)
                 IN [result |-> Return("out.png"),
                     saved |-> <<ApplyTransparencyMask(img, mask)>>]

ColorNames ==
    {Str(<<"w", "h", "i", "t", "e">>), Str(<<"W", "h", "i", "t", "e">>), Str(<<"B", "L", "A", "C", "K">>),
     Str(<<"G", "r", "e", "Y">>), Str(<<"g", "r", "a", "y">>), Str(<<"p", "i", "n", "k">>),
     Str(<<"w", "h", "i", "t">>), Str(<<"w", "h", "i", "t", "e", " ">>), <<>>}

TargetArguments ==
    {[type |-> "str", value |-> n] : n \in ColorNames}
    \cup {[type |-> t, value |-> v] :
            t \in {"tuple", "list"},
            v \in UNION {[1..n -> {0, 255}] : n \in 2..4}}
    \cup {[type |-> "int", value |-> <<255>>], [type |-> "NoneType", value |-> <<>>]}

ArgumentImages == {NoImage} \cup {img \in MaskImages : img.width = 1}

\* What the output path holds before the call: nothing, or an earlier file.
OldFile == [p \in {<<0, 0>>} |-> <<9, 9, 9, 9>>]

InitArguments ==
    /\ image \in ArgumentImages
    /\ target_color \in TargetArguments
    /\ mask_call = NoMaskCall
    /\ DetectIdle
    /\ kc = NoKc
    /\ hq_call = NoHqCall
    /\ vec_call = NoVecCall
    /\ sp_call = NoSpCall
    /\ rng = 0
    /\ runs = <<>>
    /\ threads = <<>>
    /\ (files = <<>> \/ files = [path \in {"out.png"} |-> OldFile])
    /\ ui = NoUi

\* remove_color_background(input_path, "out.png", target_color, tolerance)
\* with any kind of target_color argument
RemoveColorBackgroundArgs ==
    /\ mask_call = NoMaskCall
    /\ \E tolerance \in HqTolerances :
        LET body == RemoveColorBackgroundBody(image, target_color, tolerance)
        IN /\ mask_call' = [op |-> "remove_color_background", tolerance |-> tolerance,
                            mask |-> <<>>, rgba |-> body.saved]
           /\ result' = body.result
           /\ files' = IF body.saved = <<>> THEN files
                       ELSE WriteFile(files, "out.png", body.saved[1])
           /\ UNCHANGED <<image, target_color, fn, num_suggestions, edge_positions,
                          edge_pixels, unique_pixels, k, kmeans, original_labels, kc, ui,
                          hq_call, vec_call, sp_call, rng, runs, threads>>

NextArguments == RemoveColorBackgroundArgs

SpecArguments == InitArguments /\ [][NextArguments]_vars

\* The known color names, in lower case
KnownNames ==
    {Str(<<"w", "h", "i", "t", "e">>), Str(<<"b", "l", "a", "c", "k">>), Str(<<"r", "e", "d">>),
     Str(<<"g", "r", "e", "e", "n">>), Str(<<"b", "l", "u", "e">>), Str(<<"y", "e", "l", "l", "o", "w">>),
     Str(<<"c", "y", "a", "n">>), Str(<<"m", "a", "g", "e", "n", "t", "a">>), Str(<<"g", "r", "a", "y">>),
     Str(<<"g", "r", "e", "y">>)}

InvalidInput ==
    \/ image = NoImage
    \/ target_color.type = "str" /\ StrLower(target_color.value) \notin KnownNames
    \/ target_color.type \notin {"str", "tuple", "list"}
    \/ target_color.type \in {"tuple", "list"} /\ Len(target_color.value) # 3

OutputUntouched == files = <<>> \/ files["out.png"] = OldFile

\* C21: remove_color_background on an undecodable image, an unknown color
\* name (compared without regard to case) or a target that is neither a str
\* nor a tuple or list of three items raises ValueError to the caller and
\* neither creates nor changes the output file.
C21_InvalidInputRaises ==
    (mask_call.op = "remove_color_background" /\ InvalidInput)
        => (result = Raise("ValueError") /\ OutputUntouched)

C21_Witness ==
    /\ mask_call.op = "remove_color_background"
    /\ image # NoImage
    /\ target_color = [type |-> "str", value |-> Str(<<"p", "i", "n", "k">>)]
    /\ result = Raise("ValueError")
    /\ files # <<>>
    /\ files["out.png"] = OldFile

\* ============================================ the window and its workers
\* ui is [current_image_path, buttons_enabled, events, dialog, error,
\* last_handled]: the image chosen, whether the five processing buttons are
\* enabled, the worker signals queued for the window's thread, the dialog
\* opened by the result handler, the message of show_error, and the type of
\* the result handled last.  threads holds every ProcessingThread started.
GuiFiles == {"a.png", "b.png", "broken.png"}

\* QPixmap(path).isNull() is false: the file can be displayed
Displayable(path) == path # "broken.png"

\* detect_background_colors_gui(path, num_suggestions=6) in the worker: the
\* candidates found on the file (none on b.png)
SuggestionsOf(path) ==
    IF path = "a.png"
    THEN <<[color |-> <<250, 250, 250>>, description |-> "White/Very Light"],
           [color |-> <<30, 30, 30>>, description |-> "Dark Gray"]>>
    ELSE <<>>

ProcessingOperations ==
    {"ai_background_removal", "smart_background_removal", "vectorization",
     "colored_vectorization", "complete_processing"}

InitGui ==
    /\ ui = [current_image_path |-> "none", buttons_enabled |-> FALSE, events |-> <<>>,
             dialog |-> "none", error |-> "none", last_handled |-> "none"]
    /\ threads = <<>>
    /\ image = NoImage
    /\ DetectIdle
    /\ MaskIdle
    /\ kc = NoKc
    /\ hq_call = NoHqCall
    /\ vec_call = NoVecCall
    /\ sp_call = NoSpCall
    /\ rng = 0
    /\ runs = <<>>
    /\ files = <<>>

GuiRest == <<image, detectVars, maskVars, kc, hq_call, vec_call, sp_call, rng, runs, files>>

\* update_button_states(enabled), the processing buttons
UpdateButtonStates(w, enabled) == [w EXCEPT !.buttons_enabled = enabled]

\* show_error(message)
ShowError(w, message) == [w EXCEPT !.error = message]

\* ImageEditorGUI.load_image: the load button is always enabled; the file
\* dialog returns a path or is cancelled.
LoadImage ==
    /\ \E file_path \in GuiFiles \cup {""} :
         ui' = IF file_path = "" THEN ui
               ELSE LET chosen == [ui EXCEPT !.current_image_path = file_path]
                    IN IF Displayable(file_path) THEN UpdateButtonStates(chosen, TRUE)
                       ELSE ShowError(chosen, "Failed to load image")
    /\ UNCHANGED <<threads, GuiRest>>

\* start_processing(operation)
StartProcessing(w, ths, operation) ==
    IF w.current_image_path = "none"
    THEN [ui |-> ShowError(w, "Please load an image first"), threads |-> ths]
    ELSE [ui |-> UpdateButtonStates(w, FALSE),
          threads |-> Append(ths, [operation |-> operation,
                                   image_path |-> w.current_image_path, pc |-> "running"])]

\* A click on one of the five processing buttons, possible while they are
\* enabled.
ClickProcessingButton ==
    /\ ui.buttons_enabled
    /\ Len(threads) < MaxRuns
    /\ \E operation \in ProcessingOperations :
         LET started == StartProcessing(ui, threads, operation)
         IN /\ ui' = started.ui
            /\ threads' = started.threads
    /\ UNCHANGED GuiRest

\* The terminal signals a ProcessingThread.run may emit when nobody stops it
WorkerSignals(th) ==
    IF th.operation = "smart_background_removal"
    THEN IF SuggestionsOf(th.image_path) = <<>>
         THEN {[signal |-> "error_occurred", type |-> "none"]}
         ELSE {[signal |-> "result_ready", type |-> "color_suggestions"]}
    ELSE {[signal |-> "error_occurred", type |-> "none"],
          [signal |-> "result_ready",
           type |-> IF th.operation = "complete_processing" THEN "complete_pipeline"
                    ELSE "single_file"]}

\* ProcessingThread.run to its end: the signal is queued for the window.
WorkerRun ==
    \E i \in DOMAIN threads :
        /\ threads[i].pc = "running"
        /\ \E sig \in WorkerSignals(threads[i]) :
             /\ threads' = [threads EXCEPT ![i].pc = "finished"]
             /\ ui' = [ui EXCEPT !.events = Append(@, sig)]
        /\ UNCHANGED GuiRest

\* self.show_color_suggestions(...): ImageEditorGUI defines no such method
ShowColorSuggestions == Raise("AttributeError")

\* handle_processing_result as bound on the class (the second definition)
HandleProcessingResult(w, type) ==
    LET enabled == [UpdateButtonStates(w, TRUE) EXCEPT !.last_handled = type]
    IN IF type = "color_suggestions"
       THEN IF ShowColorSuggestions.kind = "raise"
            THEN ShowError(enabled, "Error handling result")
            ELSE [enabled EXCEPT !.dialog = "color_selection"]
       ELSE enabled

\* handle_processing_error
HandleProcessingError(w) ==
    ShowError([UpdateButtonStates(w, TRUE) EXCEPT !.last_handled = "error"],
              "Processing failed")

\* The window's thread takes the next queued signal.
HandleSignal ==
    /\ ui.events # <<>>
    /\ LET sig == Head(ui.events)
           w == [ui EXCEPT !.events = Tail(@)]
       IN ui' = IF sig.signal = "result_ready" THEN HandleProcessingResult(w, sig.type)
                ELSE HandleProcessingError(w)
    /\ UNCHANGED <<threads, GuiRest>>

NextGui == LoadImage \/ ClickProcessingButton \/ WorkerRun \/ HandleSignal

SpecGui == InitGui /\ [][NextGui]_vars

\* C22: once a color_suggestions result of a smart_background_removal run
\* has been handled, the suggestions are presented for selection and no
\* error is shown.
C22_SuggestionsPresented ==
    ui.last_handled = "color_suggestions"
        => (ui.dialog = "color_selection" /\ ui.error = "none")

\* C23: at most one ProcessingThread is running at any time, whatever the
\* user does (loading another image included).
C23_OneProcessingThread ==
    Cardinality({i \in DOMAIN threads : threads[i].pc = "running"}) <= 1

\* ====================================================== color descriptions
Max3(r, g, b) == Max(r, Max(g, b))

\* Variant: the gray bucket takes channels up to 40 apart.
DescribeColor_wideGray(color_rgb) ==
    LET r == color_rgb[1]
        g == color_rgb[2]
        b == color_rgb[3]
        max_val == Max3(r, g, b)
    IN IF r > 240 /\ g > 240 /\ b > 240 THEN "White/Very Light"
       ELSE IF r < 15 /\ g < 15 /\ b < 15 THEN "Black/Very Dark"
       ELSE IF Abs(r - g) < 40 /\ Abs(g - b) < 40 /\ Abs(r - b) < 40
       THEN (IF r > 200 THEN "Light Gray" ELSE IF r > 100 THEN "Medium Gray" ELSE "Dark Gray")
       ELSE IF r = max_val /\ r > g + 30 /\ r > b + 30 THEN "Red-ish"
       ELSE IF g = max_val /\ g > r + 30 /\ g > b + 30 THEN "Green-ish"
       ELSE IF b = max_val /\ b > r + 30 /\ b > g + 30 THEN "Blue-ish"
       ELSE IF r > 200 /\ g > 200 /\ b < 100 THEN "Yellow-ish"
       ELSE IF r > 200 /\ g < 100 /\ b > 200 THEN "Magenta-ish"
       ELSE IF r < 100 /\ g > 200 /\ b > 200 THEN "Cyan-ish"
       ELSE "Mixed Color"

\* _describe_color
DescribeColor(color_rgb) ==
    LET r == color_rgb[1]
        g == color_rgb[2]
        b == color_rgb[3]
        max_val == Max3(r, g, b)
    IN IF r > 240 /\ g > 240 /\ b > 240 THEN "White/Very Light"
       ELSE IF r < 15 /\ g < 15 /\ b < 15 THEN "Black/Very Dark"
       ELSE IF Abs(r - g) < 20 /\ Abs(g - b) < 20 /\ Abs(r - b) < 20
       THEN (IF r > 200 THEN "Light Gray" ELSE IF r > 100 THEN "Medium Gray" ELSE "Dark Gray")
       ELSE IF r = max_val /\ r > g + 30 /\ r > b + 30 THEN "Red-ish"
       ELSE IF g = max_val /\ g > r + 30 /\ g > b + 30 THEN "Green-ish"
       ELSE IF b = max_val /\ b > r + 30 /\ b > g + 30 THEN "Blue-ish"
       ELSE IF r > 200 /\ g > 200 /\ b < 100 THEN "Yellow-ish"
       ELSE IF r > 200 /\ g < 100 /\ b > 200 THEN "Magenta-ish"
       ELSE IF r < 100 /\ g > 200 /\ b > 200 THEN "Cyan-ish"
       ELSE "Mixed Color"

\* _get_color_description: the same tests on r, g, b = color_rgb
GetColorDescription(color_rgb) ==
    LET r == color_rgb[1]
        g == color_rgb[2]
        b == color_rgb[3]
        max_val == Max3(r, g, b)
    IN IF r > 240 /\ g > 240 /\ b > 240 THEN "White/Very Light"
       ELSE IF r < 15 /\ g < 15 /\ b < 15 THEN "Black/Very Dark"
       ELSE IF Abs(r - g) < 20 /\ Abs(g - b) < 20 /\ Abs(r - b) < 20
       THEN (IF r > 200 THEN "Light Gray" ELSE IF r > 100 THEN "Medium Gray" ELSE "Dark Gray")
       ELSE IF r = max_val /\ r > g + 30 /\ r > b + 30 THEN "Red-ish"
       ELSE IF g = max_val /\ g > r + 30 /\ g > b + 30 THEN "Green-ish"
       ELSE IF b = max_val /\ b > r + 30 /\ b > g + 30 THEN "Blue-ish"
       ELSE IF r > 200 /\ g > 200 /\ b < 100 THEN "Yellow-ish"
       ELSE IF r > 200 /\ g < 100 /\ b > 200 THEN "Magenta-ish"
       ELSE IF r < 100 /\ g > 200 /\ b > 200 THEN "Cyan-ish"
       ELSE "Mixed Color"

\* Channel values: every tenth level and the neighbours of the thresholds
DescribeChannels ==
    {v \in 0..255 : v % 10 = 0}
    \cup {14, 15, 16, 19, 21, 29, 31, 99, 101, 199, 201, 209, 211, 224, 225, 239, 241, 254, 255}

InitDescribe ==
    /\ target_color \in DescribeChannels \X DescribeChannels \X DescribeChannels
    /\ image = NoImage
    /\ mask_call = NoMaskCall
    /\ DetectIdle
    /\ kc = NoKc
    /\ ExtIdle

DescribeRest == <<image, maskVars, kc, extVars, num_suggestions, edge_positions,
                  edge_pixels, unique_pixels, k, kmeans, original_labels>>

\* self._describe_color(color_rgb)
DescribeColorCall ==
    /\ fn = "none"
    /\ fn' = "_describe_color"
    /\ result' = Return(DescribeColor(target_color))
    /\ UNCHANGED DescribeRest

\* self._get_color_description(color_rgb)
GetColorDescriptionCall ==
    /\ fn = "none"
    /\ fn' = "_get_color_description"
    /\ result' = Return(GetColorDescription(target_color))
    /\ UNCHANGED DescribeRest

NextDescribe == DescribeColorCall \/ GetColorDescriptionCall

SpecDescribe == InitDescribe /\ [][NextDescribe]_vars

Dominates(x, y, z) == x > y + 30 /\ x > z + 30

Slug(description) ==
    CASE description = "White/Very Light" -> "white_very_light"
      [] description = "Black/Very Dark" -> "black_very_dark"
      [] description = "Light Gray" -> "light_gray"
      [] description = "Medium Gray" -> "medium_gray"
      [] description = "Dark Gray" -> "dark_gray"
      [] description = "Red-ish" -> "red-ish"
      [] description = "Green-ish" -> "green-ish"
      [] description = "Blue-ish" -> "blue-ish"
      [] description = "Yellow-ish" -> "yellow-ish"
      [] description = "Magenta-ish" -> "magenta-ish"
      [] description = "Cyan-ish" -> "cyan-ish"
      [] OTHER -> "mixed_color"

\* output_dir / f"{stem}_no_{...}.png"
BatchOutputPath(stem, description) == <<stem, "_no_", Slug(description), ".png">>

WorkerColors == {<<250, 250, 250>>, <<245, 245, 245>>, <<30, 30, 30>>}

\* Selections: distinct colors, each with the description the detection
\* gave it
Selections ==
    {[i \in DOMAIN sel |-> [color |-> sel[i], description |-> GetColorDescription(sel[i])]] :
        sel \in {q \in SeqsUpTo(WorkerColors, MaxSelected) :
                    \A i, j \in DOMAIN q : i # j => q[i] # q[j]}}

WorkerArguments ==
    {[operation |-> op, selected_colors |-> <<>>, num_colors |-> 8] :
        op \in {"ai_background_removal", "smart_background_removal", "vectorization",
                "complete_processing"}}
    \cup {[operation |-> "colored_vectorization", selected_colors |-> <<>>, num_colors |-> n] :
            n \in {2, 8, 32}}
    \cup {[operation |-> "process_selected_colors", selected_colors |-> sel, num_colors |-> 8] :
            sel \in Selections}

\* ProcessingThread(operation, image_path, **kwargs) after start()
NewWorker(args) ==
    [operation |-> args.operation, selected_colors |-> args.selected_colors,
     num_colors |-> args.num_colors, pc |-> "started", is_running |-> FALSE, i |-> 1,
     processed |-> <<>>, tried |-> <<>>, emitted |-> <<>>,
     stop_called |-> FALSE, raised |-> FALSE, broke_at |-> 0 - 1]

InitWorker ==
    /\ threads \in {<<NewWorker(args)>> : args \in WorkerArguments}
    /\ files = <<>>
    /\ ui = NoUi
    /\ image = NoImage
    /\ DetectIdle
    /\ MaskIdle
    /\ kc = NoKc
    /\ hq_call = NoHqCall
    /\ vec_call = NoVecCall
    /\ sp_call = NoSpCall
    /\ rng = 0
    /\ runs = <<>>

WorkerRest == <<image, detectVars, maskVars, kc, hq_call, vec_call, sp_call, rng, runs, ui>>

\* self._is_running = True
RunBegin ==
    /\ threads[1].pc = "started"
    /\ threads' = [threads EXCEPT ![1].pc = "body", ![1].is_running = TRUE]
    /\ UNCHANGED <<files, WorkerRest>>

\* ProcessingThread.stop(), called from the window's thread while the worker
\* has not finished
Stop ==
    /\ threads[1].pc # "finished"
    /\ ~threads[1].stop_called
    /\ threads' = [threads EXCEPT ![1].is_running = FALSE, ![1].stop_called = TRUE]
    /\ UNCHANGED <<files, WorkerRest>>

\* The branch of run() for the operation, up to its emit, its return, the
\* exception it lets out, or the head of the loop over the selected colors.
\* outcome is what the call into the core does: "ok", "empty" (no
\* suggestions) or "raise".
OperationBranch(th, outcome) ==
    IF th.operation = "process_selected_colors"
    THEN IF th.selected_colors = <<>>
         THEN [th EXCEPT !.emitted = Append(@, "error_occurred"), !.pc = "finally"]
         ELSE [th EXCEPT !.pc = "loop"]
    ELSE IF th.operation = "colored_vectorization"
            /\ (th.num_colors < 2 \/ th.num_colors > 32)
    THEN [th EXCEPT !.emitted = Append(@, "error_occurred"), !.pc = "finally"]
    ELSE IF outcome = "raise" THEN [th EXCEPT !.raised = TRUE, !.pc = "except"]
    ELSE IF th.operation = "smart_background_removal" /\ outcome = "empty"
    THEN [th EXCEPT !.emitted = Append(@, "error_occurred"), !.pc = "finally"]
    ELSE [th EXCEPT !.emitted = Append(@, "result_ready"), !.pc = "finally"]

RunBranch ==
    /\ threads[1].pc = "body"
    /\ \E outcome \in {"ok", "empty", "raise"} :
         threads' = [threads EXCEPT ![1] = OperationBranch(threads[1], outcome)]
    /\ UNCHANGED <<files, WorkerRest>>

\* The head of the for loop: the end of the list, or `if not
\* self._is_running: break`; after the loop result_ready is emitted.
LoopHead ==
    /\ threads[1].pc = "loop"
    /\ LET th == threads[1]
       IN threads' =
            IF th.i > Len(th.selected_colors)
            THEN [threads EXCEPT ![1].emitted = Append(@, "result_ready"),
                                 ![1].pc = "finally"]
            ELSE IF ~th.is_running
            THEN [threads EXCEPT ![1].emitted = Append(@, "result_ready"),
                                 ![1].pc = "finally", ![1].broke_at = Len(th.tried)]
            ELSE [threads EXCEPT ![1].pc = "remove"]
    /\ UNCHANGED <<files, WorkerRest>>

\* Variant: a failed removal leaves the loop through the outer handler.
AfterRemoval_abort(th, ok) ==
    IF ok THEN [th EXCEPT !.i = @ + 1, !.pc = "loop"]
    ELSE [th EXCEPT !.raised = TRUE, !.pc = "except"]

\* The inner try/except: a failure is reported as progress and the loop
\* goes on.
AfterRemoval(th, ok) == [th EXCEPT !.i = @ + 1, !.pc = "loop"]

\* One pass of the loop body: remove_color_background_hq on the next color
\* writes its output file and returns the path, or raises.
RemoveNextColor ==
    /\ threads[1].pc = "remove"
    /\ LET th == threads[1]
           item == th.selected_colors[th.i]
           output_path == BatchOutputPath("a", item.description)
       IN \E ok \in BOOLEAN :
            LET tried == [th EXCEPT !.tried = Append(@, [color |-> item.color, ok |-> ok]),
                                    !.processed =
                                        IF ok THEN Append(@, [color |-> item.color,
                                                              description |-> item.description,
                                                              path |-> output_path])
                                        ELSE @]
            IN /\ threads' = [threads EXCEPT ![1] = AfterRemoval(tried, ok)]
               /\ files' = IF ok THEN WriteFile(files, output_path, [removed |-> item.color])
                           ELSE files
    /\ UNCHANGED WorkerRest

\* Variant: the handler never reports.
ExceptSignals_never(th) == <<>>

\* except Exception: `if self._is_running: self.error_occurred.emit(str(e))`
ExceptSignals(th) == IF th.is_running THEN <<"error_occurred">> ELSE <<>>

RunExcept ==
    /\ threads[1].pc = "except"
    /\ threads' = [threads EXCEPT ![1].emitted = @ \o ExceptSignals(threads[1]),
                                  ![1].pc = "finally"]
    /\ UNCHANGED <<files, WorkerRest>>

\* finally: self._is_running = False
RunFinally ==
    /\ threads[1].pc = "finally"
    /\ threads' = [threads EXCEPT ![1].is_running = FALSE, ![1].pc = "finished"]
    /\ UNCHANGED <<files, WorkerRest>>

NextWorker ==
    RunBegin \/ Stop \/ RunBranch \/ LoopHead \/ RemoveNextColor \/ RunExcept \/ RunFinally

SpecWorker == InitWorker /\ [][NextWorker]_vars

Finished(th) == th.pc = "finished"

\* C24 as stated: every finished run has emitted exactly one terminal signal.
C24_Original == \A n \in DOMAIN threads : Finished(threads[n]) => Len(threads[n].emitted) = 1

\* C24: a run emits at most one terminal signal, and a finished run has
\* emitted exactly one unless stop() was called and the operation raised.
C24_OneSignalUnlessStopped ==
    \A n \in DOMAIN threads :
        LET th == threads[n]
        IN /\ Len(th.emitted) <= 1
           /\ Finished(th) => (Len(th.emitted) = 1 \/ (th.stop_called /\ th.raised))

C24_Witness ==
    /\ Finished(threads[1])
    /\ threads[1].operation = "vectorization"
    /\ threads[1].stop_called
    /\ threads[1].raised
    /\ threads[1].emitted = <<>>

\* C27: after a batch, every entry of 'processed' names its own output file,
\* and that file holds the removal of the entry's color.
C27_DistinctOutputs ==
    \A n \in DOMAIN threads :
        LET th == threads[n]
        IN Finished(th) =>
            /\ \A a, b \in DOMAIN th.processed :
                    a # b => th.processed[a].path # th.processed[b].path
            /\ \A a \in DOMAIN th.processed :
                    files[th.processed[a].path] = [removed |-> th.processed[a].color]

RECURSIVE Succeeded(_)
Succeeded(tried) ==
    IF tried = <<>> THEN <<>>
    ELSE (IF Head(tried).ok THEN <<Head(tried).color>> ELSE <<>>) \o Succeeded(Tail(tried))

\* C28: in a process_selected_colors run a failed color does not end the
\* batch: unless stop() was called every selected color is tried, in order;
\* 'processed' lists exactly the colors that succeeded, in selection order;
\* result_ready is the one signal emitted; and once the loop has seen the
\* stop no further color is tried.
C28_BatchSurvivesFailure ==
    \A n \in DOMAIN threads :
        LET th == threads[n]
        IN (th.operation = "process_selected_colors" /\ th.selected_colors # <<>>) =>
            /\ [a \in DOMAIN th.processed |-> th.processed[a].color] = Succeeded(th.tried)
            /\ Len(th.tried) <= Len(th.selected_colors)
            /\ \A a \in DOMAIN th.tried : th.tried[a].color = th.selected_colors[a].color
            /\ th.broke_at >= 0 => Len(th.tried) = th.broke_at
            /\ Finished(th) =>
                /\ th.emitted = <<"result_ready">>
                /\ ~th.stop_called => Len(th.tried) = Len(th.selected_colors)

C28_Witness ==
    /\ Finished(threads[1])
    /\ threads[1].operation = "process_selected_colors"
    /\ Len(threads[1].selected_colors) = 2
    /\ ~threads[1].stop_called
    /\ threads[1].tried = <<[color |-> <<250, 250, 250>>, ok |-> FALSE],
                            [color |-> <<30, 30, 30>>, ok |-> TRUE]>>
    /\ Len(threads[1].processed) = 1
    /\ threads[1].emitted = <<"result_ready">>

\* ======================================================= preview generation
\* ui is [now, has_color, slider, timer, single_shots, preview_thread,
\* last_change, with_color, kept, burst, started]: the clock in ms, whether
\* selected_preview_color is set, the tolerance slider, the deadline of preview_timer (-1: inactive),
\* the deadlines of the pending QTimer.singleShot calls, the index in
\* threads of self.preview_thread (0: None), the time of the latest slider
\* change (-1: none yet), whether a color was selected at that change,
\* whether it has stayed selected since, the number of changes the running
\* timer has seen, and the background previews the timer has started.
\* threads holds every PreviewThread started.
Times == {t \in 0..MaxTime : t % 500 = 0}

SliderValues == {10, 30, 50}

\* self.preview_timer.start(1000) and QTimer.singleShot(1000, ...)
PreviewDelay == 1000

\* The window with an image loaded and no preview color picked yet.
InitPreview ==
    /\ ui = [now |-> 0, has_color |-> FALSE, slider |-> 30, timer |-> 0 - 1,
             single_shots |-> {}, preview_thread |-> 0, last_change |-> 0 - 1,
             with_color |-> FALSE, kept |-> FALSE, burst |-> 0, started |-> <<>>]
    /\ threads = <<>>
    /\ image = NoImage
    /\ DetectIdle
    /\ MaskIdle
    /\ kc = NoKc
    /\ hq_call = NoHqCall
    /\ vec_call = NoVecCall
    /\ sp_call = NoSpCall
    /\ rng = 0
    /\ runs = <<>>
    /\ files = <<>>

PreviewRest == <<image, detectVars, maskVars, kc, hq_call, vec_call, sp_call, rng, runs, files>>

\* Time passes; a timer that is due fires before the clock moves on.
Tick ==
    /\ \E t \in Times :
         /\ t > ui.now
         /\ ui.timer >= 0 => t <= ui.timer
         /\ \A d \in ui.single_shots : t <= d
         /\ ui' = [ui EXCEPT !.now = t]
    /\ UNCHANGED <<threads, PreviewRest>>

\* pick_preview_color with a valid color chosen
PickPreviewColor ==
    /\ ~ui.has_color
    /\ ui' = [ui EXCEPT !.has_color = TRUE]
    /\ UNCHANGED <<threads, PreviewRest>>

\* load_image with a displayable file: selected_preview_color is deleted
ReloadImage ==
    /\ ui.has_color
    /\ ui' = [ui EXCEPT !.has_color = FALSE, !.kept = FALSE]
    /\ UNCHANGED <<threads, PreviewRest>>

\* Variant: a timer that is already active keeps its deadline.
RestartTimer_keep(w) ==
    IF w.timer >= 0 THEN [w EXCEPT !.burst = @ + 1]
    ELSE [w EXCEPT !.timer = w.now + PreviewDelay, !.burst = 1]

\* self.preview_timer.stop(); self.preview_timer.start(1000)
RestartTimer(w) ==
    [w EXCEPT !.timer = w.now + PreviewDelay, !.burst = IF w.timer >= 0 THEN @ + 1 ELSE 1]

\* update_live_preview(value), the slot of the slider's valueChanged
UpdateLivePreview(w, value) ==
    LET moved == [w EXCEPT !.slider = value, !.last_change = w.now,
                           !.with_color = w.has_color, !.kept = w.has_color]
    IN IF moved.has_color THEN RestartTimer(moved) ELSE moved

\* The slider is moved; two moves are never at the same instant.
MoveSlider ==
    /\ ui.now + PreviewDelay <= MaxTime
    /\ ui.now > ui.last_change
    /\ \E value \in SliderValues \ {ui.slider} : ui' = UpdateLivePreview(ui, value)
    /\ UNCHANGED <<threads, PreviewRest>>

Running(ths) == {n \in DOMAIN ths : ths[n].pc = "running"}

\* generate_background_preview: the thread self.preview_thread refers to is
\* terminated if it is running, then a new one is started.
GenerateBackgroundPreview(w, ths, by) ==
    IF ~w.has_color THEN [ui |-> w, threads |-> ths]
    ELSE LET stopped == IF w.preview_thread > 0 /\ ths[w.preview_thread].pc = "running"
                        THEN [ths EXCEPT ![w.preview_thread].pc = "terminated"]
                        ELSE ths
             new == [operation |-> "background_removal_preview", tolerance |-> w.slider,
                     pc |-> "running"]
         IN [ui |-> [w EXCEPT !.preview_thread = Len(ths) + 1,
                              !.started = IF by = "timer"
                                          THEN Append(@, [at |-> w.now, tolerance |-> w.slider,
                                                          last_change |-> w.last_change,
                                                          with_color |-> w.with_color,
                                                          changes |-> w.burst])
                                          ELSE @],
             threads |-> Append(stopped, new)]

\* generate_vector_preview: a new thread is started and self.preview_thread
\* set to it.
GenerateVectorPreview(w, ths) ==
    [ui |-> [w EXCEPT !.preview_thread = Len(ths) + 1],
     threads |-> Append(ths, [operation |-> "vectorization_preview", tolerance |-> 0,
                              pc |-> "running"])]

\* preview_timer times out: _delayed_preview_generation
PreviewTimerFires ==
    /\ ui.timer >= 0
    /\ ui.now = ui.timer
    /\ Len(threads) < MaxPreviews
    /\ LET next == GenerateBackgroundPreview([ui EXCEPT !.timer = 0 - 1], threads, "timer")
       IN /\ ui' = next.ui
          /\ threads' = next.threads
    /\ UNCHANGED PreviewRest

\* A click on the generate-preview button (enabled once a color is picked)
ClickGeneratePreview ==
    /\ ui.has_color
    /\ Len(threads) < MaxPreviews
    /\ LET next == GenerateBackgroundPreview(ui, threads, "button")
       IN /\ ui' = next.ui
          /\ threads' = next.threads
    /\ UNCHANGED PreviewRest

\* A click on the vector-preview button
ClickVectorPreview ==
    /\ Len(threads) < MaxPreviews
    /\ LET next == GenerateVectorPreview(ui, threads)
       IN /\ ui' = next.ui
          /\ threads' = next.threads
    /\ UNCHANGED PreviewRest

\* update_vectorization_preview, the slot of the quality list and the
\* colors box: QTimer.singleShot(1000, self.generate_vector_preview)
UpdateVectorizationPreview ==
    /\ ui.now + PreviewDelay <= MaxTime
    /\ ui' = [ui EXCEPT !.single_shots = @ \cup {ui.now + PreviewDelay}]
    /\ UNCHANGED <<threads, PreviewRest>>

\* A pending single shot times out.
SingleShotFires ==
    /\ ui.now \in ui.single_shots
    /\ Len(threads) < MaxPreviews
    /\ LET next == GenerateVectorPreview([ui EXCEPT !.single_shots = @ \ {ui.now}], threads)
       IN /\ ui' = next.ui
          /\ threads' = next.threads
    /\ UNCHANGED PreviewRest

\* PreviewThread.run comes to its end.
PreviewRunEnds ==
    /\ \E n \in Running(threads) : threads' = [threads EXCEPT ![n].pc = "finished"]
    /\ UNCHANGED <<ui, PreviewRest>>

NextPreview ==
    \/ Tick
    \/ PickPreviewColor
    \/ ReloadImage
    \/ MoveSlider
    \/ PreviewTimerFires
    \/ ClickGeneratePreview
    \/ ClickVectorPreview
    \/ UpdateVectorizationPreview
    \/ SingleShotFires
    \/ PreviewRunEnds

SpecPreview == InitPreview /\ [][NextPreview]_vars

\* C25: at most one PreviewThread is running at any time.
C25_OnePreviewThread == Cardinality(Running(threads)) <= 1

\* C26: when the latest slider change was made with a preview color
\* selected, the timer starts a background preview only 1000 ms after that
\* change, one preview per burst, with the slider's final value; and while
\* the color stays selected it does start it: the clock never passes
\* 1000 ms after the latest change without the preview.
C26_Debounce ==
    /\ \A n \in DOMAIN ui.started :
         ui.started[n].with_color =>
             /\ ui.started[n].at = ui.started[n].last_change + PreviewDelay
             /\ ui.started[n].last_change = ui.last_change
                   => ui.started[n].tolerance = ui.slider
             /\ \A q \in DOMAIN ui.started :
                   q # n => ui.started[q].last_change # ui.started[n].last_change
    /\ (ui.timer >= 0 /\ ui.with_color)
          => ui.timer = ui.last_change + PreviewDelay /\ ui.now <= ui.timer
    /\ (ui.kept /\ ui.timer < 0 /\ ui.now >= ui.last_change + PreviewDelay)
          => \E n \in DOMAIN ui.started : ui.started[n].last_change = ui.last_change

C26_Witness ==
    /\ Len(ui.started) = 1
    /\ ui.started[1] = [at |-> 1500, tolerance |-> 10, last_change |-> 500,
                        with_color |-> TRUE, changes |-> 2]
    /\ ui.slider = 10
    /\ ui.now = 1500

\* ======================================================= complete processing
\* ui is [pc, image_path, results, raised, cli, gui]: results is the value
\* process_complete_hq returned, a dict as a function from its keys to
\* values tagged with their Python type; cli and gui are what menu option 7
\* and the window's result handler made of it.
CompleteStems == {"a", "b", "c", "missing"}

\* os.path.exists(image_path) for the input file
InputExists(stem) == stem # "missing"

StrValue(s) == [type |-> "str", value |-> s]

DictValue(d) == [type |-> "dict", value |-> d]

NoneValue == [type |-> "NoneType", value |-> <<>>]

\* What remove_background_smart can return: None, or a dict whose
\* 'processed' list has one entry per color removed.
BgResults(stem) ==
    {NoneValue} \cup
    {DictValue([original |-> stem,
                processed |-> [i \in DOMAIN sel |->
                                 [color |-> sel[i].color,
                                  description |-> sel[i].description,
                                  path |-> BatchOutputPath(stem, sel[i].description)]]]) :
        sel \in Selections}

\* vectorize_image(image_path, quality='high'): the path of the SVG
\* (its stem, then "_vector_hq.svg")
VectorizeImagePath(image_path) ==
    <<image_path[1], image_path[2], image_path[3], "_vector_hq", ".svg">>

\* process_complete_hq(image_path) once the file exists
ProcessCompleteHq(stem, bg_results) ==
    IF bg_results.type = "NoneType" \/ bg_results.value.processed = <<>>
    THEN [error |-> StrValue("No background removal results")]
    ELSE [original |-> StrValue(stem),
          background_removal_results |-> bg_results,
          final_vector |-> StrValue(VectorizeImagePath(bg_results.value.processed[1].path))]

\* The order in which the dict's items come
ItemKeys(results) ==
    IF "error" \in DOMAIN results THEN <<"error">>
    ELSE <<"original", "background_removal_results", "final_vector">>

NotPresented == [status |-> "none", exc |-> "none", listed |-> 0]

\* Menu option 7 of the command line
PresentInCli(results) ==
    IF "error" \in DOMAIN results
    THEN [status |-> "reported_error", exc |-> "none", listed |-> 0]
    ELSE IF "best_background_removed" \notin DOMAIN results
         THEN [status |-> "error", exc |-> "KeyError", listed |-> 1]
         ELSE [status |-> "success", exc |-> "none",
               listed |-> 3 + Len(results["background_removal_results"].value.processed)]

\* `if path and os.path.exists(path)`: raises for a value that is not a path
RECURSIVE AddResultFiles(_, _, _)
AddResultFiles(results, keys, listed) ==
    IF keys = <<>> THEN [status |-> "success", exc |-> "none", listed |-> listed]
    ELSE IF results[Head(keys)].type = "str"
         THEN AddResultFiles(results, Tail(keys), listed + 1)
         ELSE [status |-> "error", exc |-> "TypeError", listed |-> listed]

\* handle_processing_result for {'type': 'complete_pipeline', 'results': results}
PresentInGui(results) == AddResultFiles(results, ItemKeys(results), 0)

InitComplete ==
    /\ ui = [pc |-> "start", image_path |-> "none", results |-> [error |-> NoneValue],
             raised |-> "none", cli |-> NotPresented, gui |-> NotPresented]
    /\ threads = <<>>
    /\ image = NoImage
    /\ DetectIdle
    /\ MaskIdle
    /\ kc = NoKc
    /\ hq_call = NoHqCall
    /\ vec_call = NoVecCall
    /\ sp_call = NoSpCall
    /\ rng = 0
    /\ runs = <<>>
    /\ files = <<>>

CompleteRest == <<threads, PreviewRest>>

ProcessCompleteHqCall ==
    /\ ui.pc = "start"
    /\ \E stem \in CompleteStems :
         IF ~InputExists(stem)
         THEN ui' = [ui EXCEPT !.pc = "raised", !.image_path = stem,
                               !.raised = "FileNotFoundError"]
         ELSE \E bg_results \in BgResults(stem) :
                ui' = [ui EXCEPT !.pc = "returned", !.image_path = stem,
                                 !.results = ProcessCompleteHq(stem, bg_results)]
    /\ UNCHANGED CompleteRest

CliOption7 ==
    /\ ui.pc = "returned"
    /\ ui.cli.status = "none"
    /\ ui' = [ui EXCEPT !.cli = PresentInCli(ui.results)]
    /\ UNCHANGED CompleteRest

GuiCompletePipeline ==
    /\ ui.pc = "returned"
    /\ ui.gui.status = "none"
    /\ ui' = [ui EXCEPT !.gui = PresentInGui(ui.results)]
    /\ UNCHANGED CompleteRest

NextComplete ==
    \/ ProcessCompleteHqCall
    \/ CliOption7
    \/ GuiCompletePipeline

SpecComplete == InitComplete /\ [][NextComplete]_vars

\* C29: a successful complete-processing run is presented as a success by
\* the command line and by the window: neither raises on the record.
C29_CompleteReported ==
    (ui.pc = "returned" /\ "error" \notin DOMAIN ui.results)
       => /\ ui.cli.status \in {"none", "success"}
          /\ ui.gui.status \in {"none", "success"}
====
